---- MODULE Spec2Model ----
(***************************************************************************)
(* Model of the matching engine of the financial reconciliation tool: the  *)
(* batch variant of reconcile (one Gemini call per File A row), its        *)
(* helpers and the handlers that invoke it (Spec), the earlier per-pair    *)
(* variant (SpecPair) and two concurrent invocations (SpecTwo).            *)
(*                                                                         *)
(* JavaScript values are records [t, n, s]: t is the typeof tag, n the     *)
(* numeric payload, s the string payload as a sequence of characters.      *)
(* Array indices are 0-based as in the source; TLA+ sequences are 1-based, *)
(* so normB[j] of the source is normB[j + 1] here.                         *)
(* Fixed point: confidences are in thousandths (850 is 0.85), amounts in   *)
(* hundredths (100000 is 1000.00), instants in whole hours.                *)
(***************************************************************************)
EXTENDS Integers, Sequences, FiniteSets, TLC

\* ------------------------------------------------------------ JS values

Undef == [t |-> "undefined", n |-> 0, s |-> <<>>]
Null == [t |-> "null", n |-> 0, s |-> <<>>]
Num(x) == [t |-> "number", n |-> x, s |-> <<>>]
Str(chars) == [t |-> "string", n |-> 0, s |-> chars]
Bool(b) == [t |-> "boolean", n |-> IF b THEN 1 ELSE 0, s |-> <<>>]
\* a reference to the row object normB[j]
RowRef(j) == [t |-> "object", n |-> j, s |-> <<>>]

\* ToBoolean: what `v && ...`, `!!v` and `v || ...` test
Truthy(v) ==
  CASE v.t = "undefined" -> FALSE
    [] v.t = "null" -> FALSE
    [] v.t = "number" -> v.n # 0
    [] v.t = "string" -> Len(v.s) > 0
    [] v.t = "boolean" -> v.n = 1
    [] OTHER -> TRUE

Digits == {"0", "1", "2", "3", "4", "5", "6", "7", "8", "9"}

DigitVal(c) ==
  CASE c = "0" -> 0 [] c = "1" -> 1 [] c = "2" -> 2 [] c = "3" -> 3
    [] c = "4" -> 4 [] c = "5" -> 5 [] c = "6" -> 6 [] c = "7" -> 7
    [] c = "8" -> 8 [] c = "9" -> 9

DigitChar(d) ==
  CASE d = 0 -> "0" [] d = 1 -> "1" [] d = 2 -> "2" [] d = 3 -> "3"
    [] d = 4 -> "4" [] d = 5 -> "5" [] d = 6 -> "6" [] d = 7 -> "7"
    [] d = 8 -> "8" [] d = 9 -> "9"

AllDigits(s) == \A k \in 1..Len(s) : s[k] \in Digits

RECURSIVE DigitsToInt(_)
DigitsToInt(s) ==
  IF Len(s) = 0 THEN 0
  ELSE 10 * DigitsToInt(SubSeq(s, 1, Len(s) - 1)) + DigitVal(s[Len(s)])

RECURSIVE IntToDigits(_)
IntToDigits(x) ==
  IF x < 10 THEN <<DigitChar(x)>>
  ELSE Append(IntToDigits(x \div 10), DigitChar(x % 10))

\* String.prototype.trim, for the blank character the ledgers use
RECURSIVE TrimLeft(_)
TrimLeft(s) ==
  IF Len(s) > 0 /\ s[1] = " " THEN TrimLeft(Tail(s)) ELSE s

RECURSIVE TrimRight(_)
TrimRight(s) ==
  IF Len(s) > 0 /\ s[Len(s)] = " " THEN TrimRight(SubSeq(s, 1, Len(s) - 1)) ELSE s

Trim(s) == TrimRight(TrimLeft(s))

\* String.prototype.padStart(2, '0')
PadStart2(s) == IF Len(s) < 2 THEN <<"0">> \o s ELSE s

\* String.prototype.split on the separator characters seps
RECURSIVE SplitOn(_, _)
SplitOn(s, seps) ==
  IF \A k \in 1..Len(s) : s[k] \notin seps THEN <<s>>
  ELSE LET k == CHOOSE q \in 1..Len(s) :
                  s[q] \in seps /\ \A r \in 1..(q - 1) : s[r] \notin seps
       IN <<SubSeq(s, 1, k - 1)>> \o SplitOn(SubSeq(s, k + 1, Len(s)), seps)

\* the longest prefix of s made of digits
RECURSIVE DigitPrefix(_)
DigitPrefix(s) ==
  IF Len(s) > 0 /\ s[1] \in Digits THEN <<s[1]>> \o DigitPrefix(Tail(s)) ELSE <<>>

\* ------------------------------------------------------------ calendar

\* days since 1970-01-01 of the proleptic Gregorian date y-m-d (m in 1..12)
DaysFromCivil(y, m, d) ==
  LET yy == IF m <= 2 THEN y - 1 ELSE y
      era == yy \div 400
      yoe == yy - era * 400
      mp == IF m > 2 THEN m - 3 ELSE m + 9
      doy == (153 * mp + 2) \div 5 + d - 1
      doe == yoe * 365 + yoe \div 4 - yoe \div 100 + doy
  IN era * 146097 + doe - 719468

\* the calendar date [y, m, d] of a day count since 1970-01-01
CivilFromDays(z0) ==
  LET z == z0 + 719468
      era == z \div 146097
      doe == z - era * 146097
      yoe == (doe - doe \div 1460 + doe \div 36524 - doe \div 146096) \div 365
      doy == doe - (365 * yoe + yoe \div 4 - yoe \div 100)
      mp == (5 * doy + 2) \div 153
      d == doy - (153 * mp + 2) \div 5 + 1
      m == IF mp < 10 THEN mp + 3 ELSE mp - 9
  IN [y |-> IF m <= 2 THEN yoe + era * 400 + 1 ELSE yoe + era * 400, m |-> m, d |-> d]

\* the local calendar day new Date(year, monthIndex, day) denotes, as a day
\* count: years 0..99 mean 1900..1999, months and days overflow into the next
\* unit
JsDateDays(year, monthIndex, day) ==
  LET y0 == IF year >= 0 /\ year <= 99 THEN 1900 + year ELSE year
      ym == y0 * 12 + monthIndex
  IN DaysFromCivil(ym \div 12, (ym % 12) + 1, 1) + day - 1

\* The time zone of the server process.  Date's constructor and getters work
\* in local time, so what they compute depends on it.
VARIABLE zone

TimeZones == {"UTC", "America/New_York"}

\* the first day on or after day `from` that is a Sunday (1970-01-01 was a
\* Thursday)
SundayOnOrAfter(from) == from + ((7 - ((from + 4) % 7)) % 7)

\* hours to add to local midnight of day `days` to get UTC: New York is on
\* daylight time (UTC-4) from the second Sunday of March, 2 a.m., to the first
\* Sunday of November, 2 a.m., and on standard time (UTC-5) otherwise
OffsetHours(z, days) ==
  IF z = "UTC" THEN 0
  ELSE LET y == CivilFromDays(days).y
           begin == SundayOnOrAfter(DaysFromCivil(y, 3, 8))
           end == SundayOnOrAfter(DaysFromCivil(y, 11, 1))
       IN IF days > begin /\ days <= end THEN 4 ELSE 5

\* new Date(year, monthIndex, day).getTime(), in whole hours
JsDateHours(year, monthIndex, day) ==
  LET days == JsDateDays(year, monthIndex, day)
  IN days * 24 + OffsetHours(zone, days)

\* the local calendar day of the instant `hours` (UTC): what getFullYear,
\* getMonth and getDate of new Date(hours * 3600 * 1000) read
LocalDayOf(hours) ==
  LET utcDay == hours \div 24
  IN (hours - OffsetHours(zone, utcDay)) \div 24

NaN == [nan |-> TRUE, v |-> 0]
Finite(x) == [nan |-> FALSE, v |-> x]

\* Number(string) for the strings a date part can be: blank is 0, an optionally
\* signed run of digits is its value, anything else is NaN
ToNumber(s) ==
  LET u == Trim(s)
  IN IF Len(u) = 0 THEN Finite(0)
     ELSE IF AllDigits(u) THEN Finite(DigitsToInt(u))
     ELSE IF u[1] = "-" /\ Len(u) > 1 /\ AllDigits(Tail(u)) THEN Finite(0 - DigitsToInt(Tail(u)))
     ELSE NaN

\* ------------------------------------------------------------ Normalizer

Excel_Serial_Low == 40000
Excel_Serial_High == 60000
Excel_Epoch_Offset == 25569

\* String(val) of a number or a string
ToStringChars(val) ==
  IF val.t = "number"
    THEN IF val.n < 0 THEN <<"-">> \o IntToDigits(0 - val.n) ELSE IntToDigits(val.n)
    ELSE val.s

\* a string that reads 2000 + yy for every two-digit year
CenturyOf_Always2000(yy) == 2000 + yy

\* yy < 50 ? 2000 + yy : 1900 + yy
CenturyOf(yy) == IF yy < 50 THEN 2000 + yy ELSE 1900 + yy

\* a template that writes the day before the month
FormatDate_DayFirst(mm, dd, yyyy) == dd \o <<"/">> \o mm \o <<"/">> \o yyyy

\* `${mm}/${dd}/${yyyy}`
FormatDate(mm, dd, yyyy) == mm \o <<"/">> \o dd \o <<"/">> \o yyyy

normalizeDateValue(val) ==
  IF val.t \in {"null", "undefined"} THEN Str(<<>>)
  ELSE IF val.t = "number" /\ val.n > Excel_Serial_Low /\ val.n < Excel_Serial_High
    THEN LET c == CivilFromDays(LocalDayOf((val.n - Excel_Epoch_Offset) * 24))
         IN Str(FormatDate(PadStart2(IntToDigits(c.m)), PadStart2(IntToDigits(c.d)),
                           IntToDigits(c.y)))
  ELSE
    LET valStr == Trim(ToStringChars(val))
        parts == SplitOn(valStr, {"/", "-"})
        shape == /\ Len(parts) = 3
                 /\ Len(parts[1]) \in 1..2 /\ AllDigits(parts[1])
                 /\ Len(parts[2]) \in 1..2 /\ AllDigits(parts[2])
                 /\ AllDigits(parts[3])
    IN IF shape /\ Len(parts[3]) = 4
         THEN Str(FormatDate(PadStart2(parts[1]), PadStart2(parts[2]), parts[3]))
       ELSE IF shape /\ Len(parts[3]) = 2
         THEN Str(FormatDate(PadStart2(parts[1]), PadStart2(parts[2]),
                             IntToDigits(CenturyOf(DigitsToInt(parts[3])))))
       ELSE Str(valStr)

\* the column names of the ledgers, and the characters of each
Columns == {"Date", " DATE ", "Amount", "Credit Amount", "Debit Amount", "Meta"}

KeyChars(key) ==
  CASE key = "Date" -> <<"D", "a", "t", "e">>
    [] key = " DATE " -> <<" ", "D", "A", "T", "E", " ">>
    [] key = "Amount" -> <<"A", "m", "o", "u", "n", "t">>
    [] key = "Credit Amount" ->
         <<"C", "r", "e", "d", "i", "t", " ", "A", "m", "o", "u", "n", "t">>
    [] key = "Debit Amount" ->
         <<"D", "e", "b", "i", "t", " ", "A", "m", "o", "u", "n", "t">>
    [] key = "Meta" -> <<"M", "e", "t", "a">>

\* toLowerCase of one character of a column name
LowerChar(c) ==
  CASE c = "A" -> "a" [] c = "C" -> "c" [] c = "D" -> "d" [] c = "E" -> "e"
    [] c = "M" -> "m" [] c = "T" -> "t" [] OTHER -> c

\* key.trim().toLowerCase() === 'date'
IsDateKey(key) ==
  LET trimmed == Trim(KeyChars(key))
  IN [j \in 1..Len(trimmed) |-> LowerChar(trimmed[j])] = <<"d", "a", "t", "e">>

\* the column names k of the ledgers with k.trim().toLowerCase() === 'date'
DateKeys == {key \in Columns : IsDateKey(key)}

\* a cell that holds an object with the entries of `fields`, and one that holds
\* an array of such objects
Nested(fields) == [t |-> "object", n |-> 0, s |-> <<>>, o |-> fields, isArray |-> FALSE]
ArrayOf(elems) == [t |-> "object", n |-> 0, s |-> <<>>, o |-> elems, isArray |-> TRUE]

\* value && typeof value === 'object' && !Array.isArray(value)
IsPlainObject(value) == value.t = "object" /\ ~value.isArray

\* The ledgers' rows are functions from column name to cell; an absent column
\* reads as undefined.  Object.entries skips an absent key, so it stays absent.
RECURSIVE normalizeDatesInObject(_)
normalizeDatesInObject(obj) ==
  [key \in DOMAIN obj |->
     IF obj[key].t = "undefined" THEN obj[key]
     ELSE IF IsPlainObject(obj[key])
       THEN [obj[key] EXCEPT !.o = normalizeDatesInObject(obj[key].o)]
     ELSE IF key \in DateKeys
       THEN normalizeDateValue(obj[key])
     ELSE obj[key]]

\* ------------------------------------------------------------ Candidate Generator

\* new Date(y, m - 1, d).getTime() of the Number-valued parts of
\* dateX.split('/'), absent parts being undefined (NaN), in hours
DateTime(date) ==
  LET parts == SplitOn(date.s, {"/"})
      part(k) == IF k <= Len(parts) THEN ToNumber(parts[k]) ELSE NaN
      m == part(1)
      d == part(2)
      y == part(3)
  IN IF m.nan \/ d.nan \/ y.nan THEN NaN ELSE Finite(JsDateHours(y.v, m.v - 1, d.v))

\* dateA.split is a TypeError unless dateA is a string
datesAreCloseThrows(dateA, dateB) == dateA.t # "string" \/ dateB.t # "string"

datesAreClose(dateA, dateB, days) ==
  LET dtA == DateTime(dateA)
      dtB == DateTime(dateB)
      diff == IF dtA.v >= dtB.v THEN dtA.v - dtB.v ELSE dtB.v - dtA.v
  IN ~dtA.nan /\ ~dtB.nan /\ diff <= days * 24

\* parseFloat of a string of digits, '.' and '-': optional sign, digits,
\* optional fraction; the value in hundredths (further decimals dropped)
ParseFloat(s) ==
  LET neg == Len(s) > 0 /\ s[1] = "-"
      body == IF neg THEN Tail(s) ELSE s
      int == DigitPrefix(body)
      rest == SubSeq(body, Len(int) + 1, Len(body))
      frac == IF Len(rest) > 0 /\ rest[1] = "." THEN DigitPrefix(Tail(rest)) ELSE <<>>
      f1 == IF Len(frac) >= 1 THEN DigitVal(frac[1]) ELSE 0
      f2 == IF Len(frac) >= 2 THEN DigitVal(frac[2]) ELSE 0
      mag == DigitsToInt(int) * 100 + f1 * 10 + f2
  IN IF Len(int) = 0 /\ Len(frac) = 0 THEN NaN
     ELSE Finite(IF neg THEN 0 - mag ELSE mag)

\* String(a).replace(/[^\d.-]/g, ''); String(null) is "null"
StripAmount(a) ==
  LET chars == IF a.t = "null" THEN <<"n", "u", "l", "l">> ELSE ToStringChars(a)
  IN SelectSeq(chars, LAMBDA c : c \in Digits \cup {".", "-"})

\* a comparison in which an amount that is not a number is close to anything
amountsAreClose_NaNPasses(a, b, tol) ==
  LET numA == ParseFloat(StripAmount(a))
      numB == ParseFloat(StripAmount(b))
      diff == IF numA.v >= numB.v THEN numA.v - numB.v ELSE numB.v - numA.v
  IN numA.nan \/ numB.nan \/ diff <= tol

\* tol in hundredths
amountsAreClose(a, b, tol) ==
  LET numA == ParseFloat(StripAmount(a))
      numB == ParseFloat(StripAmount(b))
      diff == IF numA.v >= numB.v THEN numA.v - numB.v ELSE numB.v - numA.v
  IN ~numA.nan /\ ~numB.nan /\ diff <= tol

NonBlank(v) == Truthy(v) /\ Len(Trim(ToStringChars(v))) > 0

getRowAmount(row) ==
  IF NonBlank(row["Amount"]) THEN row["Amount"]
  ELSE IF NonBlank(row["Credit Amount"]) THEN row["Credit Amount"]
  ELSE IF NonBlank(row["Debit Amount"]) THEN row["Debit Amount"]
  ELSE Null

DATE_TOLERANCE_DAYS == 7
AMOUNT_TOLERANCE_BATCH == 500

\* the predicate of candidates' .filter for right row b at index idx
CandidateFilter(a, b, idx, used) ==
  /\ Num(idx) \notin used
  /\ Truthy(b["Date"])
  /\ datesAreClose(a["Date"], b["Date"], DATE_TOLERANCE_DAYS)
  /\ amountsAreClose(getRowAmount(a), getRowAmount(b), AMOUNT_TOLERANCE_BATCH * 100)

\* the filter reaches datesAreClose for some right row and that call throws
CandidatesThrows(a, rowsB, used) ==
  \E k \in 1..Len(rowsB) :
    /\ Num(k - 1) \notin used
    /\ Truthy(rowsB[k]["Date"])
    /\ datesAreCloseThrows(a["Date"], rowsB[k]["Date"])

\* the right indices kept by the filter, in ledger order
RECURSIVE CandidatesUpTo(_, _, _, _)
CandidatesUpTo(a, rowsB, used, k) ==
  IF k = 0 THEN <<>>
  ELSE LET before == CandidatesUpTo(a, rowsB, used, k - 1)
       IN IF CandidateFilter(a, rowsB[k], k - 1, used)
            THEN Append(before, k - 1)
            ELSE before

Candidates(a, rowsB, used) == CandidatesUpTo(a, rowsB, used, Len(rowsB))

\* ------------------------------------------------------------ Match Oracle Adapter

NoReasonProvided == Str(<<"No reason provided">>)

\* Response texts are [shape, elems]:
\*   "array"   the text is one flat JSON array, elems its elements
\*   "fenced"  a flat JSON array inside a markdown fence or commentary
\*   "object"  a JSON object without any bracket
\*   "prose"   text that is not JSON and holds no bracketed array
\* An element is JSON null or an object [isNull, file_b_index, match,
\* confidence, reason], an absent key reading as undefined.

\* content.match(/\[[\s\S]*?\]/) finds an array substring
MatchesArray(content) == content.shape \in {"array", "fenced"}

\* a string value of the response text holds the character ']'
HasClosingBracket(v) == v.t = "string" /\ \E k \in 1..Len(v.s) : v.s[k] = "]"

\* The pattern is lazy: match[0] runs from the first '[' to the first ']' after
\* it.  When a string inside the array holds a ']', match[0] ends inside that
\* string and is not the array.
TruncatedByPattern(content) ==
  /\ MatchesArray(content)
  /\ \E k \in 1..Len(content.elems) :
       /\ ~content.elems[k].isNull
       /\ \/ HasClosingBracket(content.elems[k].reason)
          \/ HasClosingBracket(content.elems[k].file_b_index)
          \/ HasClosingBracket(content.elems[k].confidence)

\* the try block throws: JSON.parse on prose or on a truncated match[0]
\* (SyntaxError), arr.map on a parsed object (TypeError), obj.file_b_index on
\* a null element (TypeError)
ParseThrows(content) ==
  \/ ~MatchesArray(content)
  \/ TruncatedByPattern(content)
  \/ \E k \in 1..Len(content.elems) : content.elems[k].isNull

\* a callback that passes the oracle's reason through as it is
Verdict_RawReason(obj) ==
  [file_b_index |-> obj.file_b_index,
   match |-> Truthy(obj.match),
   confidence |-> IF obj.confidence.t = "number" THEN obj.confidence.n ELSE 0,
   reason |-> obj.reason]

\* the object built by arr.map's callback
Verdict(obj) ==
  [file_b_index |-> obj.file_b_index,
   match |-> Truthy(obj.match),
   confidence |-> IF obj.confidence.t = "number" THEN obj.confidence.n ELSE 0,
   reason |-> IF Truthy(obj.reason) THEN obj.reason ELSE NoReasonProvided]

\* what geminiBatchMatchRow resolves to once generateContent returned content
geminiBatchMatchRow(content) ==
  IF ParseThrows(content) THEN <<>>
  ELSE [k \in 1..Len(content.elems) |-> Verdict(content.elems[k])]

\* ------------------------------------------------------------ Assignment Resolver

\* LLM_MATCH_THRESHOLD, parseFloat('0.85'), in thousandths
LLM_MATCH_THRESHOLD == 850

\* parseFloat(x.toFixed(2)) of a value in thousandths
ToFixed2(x) ==
  IF x >= 0 THEN ((x + 5) \div 10) * 10 ELSE 0 - (((0 - x) + 5) \div 10) * 10

\* the canonical decimal string of an array index
IsIndexString(s) == Len(s) > 0 /\ AllDigits(s) /\ (Len(s) = 1 \/ s[1] # "0")

\* rows[key]: a reference to the row, or undefined
ArrayIndex(rows, key) ==
  IF key.t = "number" /\ key.n >= 0 /\ key.n < Len(rows) THEN RowRef(key.n)
  ELSE IF key.t = "string" /\ IsIndexString(key.s) /\ DigitsToInt(key.s) < Len(rows)
    THEN RowRef(DigitsToInt(key.s))
  ELSE Undef

\* the entry pushed to llmCandidates for one verdict of left row i
AuditEntry(i, res, rowsB) ==
  [file_a_entry |-> RowRef(i),
   file_b_entry |-> ArrayIndex(rowsB, res.file_b_index),
   confidence_score |-> ToFixed2(res.confidence),
   match_reason |-> res.reason,
   file_a_index |-> i,
   file_b_index |-> res.file_b_index]

\* a resolver that keeps only the verdicts flagged as matches for audit
AuditEntries_OnlyMatched(i, batchResults, rowsB) ==
  LET kept == SelectSeq(batchResults, LAMBDA res : res.match)
  IN [j \in 1..Len(kept) |-> AuditEntry(i, kept[j], rowsB)]

AuditEntries(i, batchResults, rowsB) ==
  [j \in 1..Len(batchResults) |-> AuditEntry(i, batchResults[j], rowsB)]

NoBest == [bestIdx |-> Num(-1), bestConfidence |-> 0, bestReason |-> Str(<<>>)]

\* a loop that lets a later verdict of equal confidence replace the best
BetterThan_OrEqual(res, best) == res.confidence >= best.bestConfidence /\ res.match

\* one iteration of the loop over batchResults
BetterThan(res, best) == res.confidence > best.bestConfidence /\ res.match

RECURSIVE BestUpTo(_, _)
BestUpTo(batchResults, k) ==
  IF k = 0 THEN NoBest
  ELSE LET best == BestUpTo(batchResults, k - 1)
           res == batchResults[k]
       IN IF BetterThan(res, best)
            THEN [bestIdx |-> res.file_b_index,
                  bestConfidence |-> res.confidence,
                  bestReason |-> res.reason]
            ELSE best

BestMatch(batchResults) == BestUpTo(batchResults, Len(batchResults))

\* a commit test with an exclusive threshold
Commits_Exclusive(best) ==
  best.bestIdx # Num(-1) /\ best.bestConfidence > LLM_MATCH_THRESHOLD

\* bestIdx !== -1 && bestConfidence >= LLM_MATCH_THRESHOLD
Commits(best) == best.bestIdx # Num(-1) /\ best.bestConfidence >= LLM_MATCH_THRESHOLD

MatchEntry(i, best, rowsB) ==
  [type |-> "1-to-1",
   file_a_entry |-> RowRef(i),
   file_b_entry |-> ArrayIndex(rowsB, best.bestIdx),
   confidence_score |-> ToFixed2(best.bestConfidence),
   match_reason |-> best.bestReason]

\* a resolver that lets a new assignment displace an earlier one of the same
\* right row
CommitMatch_Displacing(ms, m) ==
  Append(SelectSeq(ms, LAMBDA old : old.file_b_entry # m.file_b_entry), m)

\* matches.push(m)
CommitMatch(ms, m) == Append(ms, m)

\* ------------------------------------------------------------ Result Aggregator

\* the rows normX[k] with k not in used, in order, as references
RECURSIVE UnmatchedUpTo(_, _)
UnmatchedUpTo(used, k) ==
  IF k = 0 THEN <<>>
  ELSE IF Num(k - 1) \notin used
    THEN Append(UnmatchedUpTo(used, k - 1), RowRef(k - 1))
    ELSE UnmatchedUpTo(used, k - 1)

Unmatched(rows, used) == UnmatchedUpTo(used, Len(rows))

\* ------------------------------------------------------------ inputs

MaxRowsA == 2
MaxRowsB == 2
MaxVerdicts == 2

Row(date, amount, credit, debit) ==
  [c \in Columns |->
     CASE c = "Date" -> date
       [] c = "Amount" -> amount
       [] c = "Credit Amount" -> credit
       [] c = "Debit Amount" -> debit
       [] OTHER -> Undef]

Blank == Str(<<>>)

\* File A: an invoice, a row with a short date, a row without Date column,
\* a row without any amount
A_invoice == Row(Str(<<"0", "2", "/", "0", "1", "/", "2", "0", "2", "4">>),
                 Str(<<"1", ",", "0", "0", "0", ".", "0", "0">>), Undef, Undef)
A_short == Row(Str(<<"1", "/", "3", "0", "/", "2", "4">>),
               Str(<<"$", "1", ",", "2", "0", "0", ".", "0", "0">>), Undef, Undef)
A_nodate == Row(Undef, Str(<<"1", ",", "0", "0", "0", ".", "0", "0">>), Undef, Undef)
A_noamount == Row(Str(<<"0", "2", "/", "0", "1", "/", "2", "0", "2", "4">>),
                  Blank, Undef, Undef)

\* File B: a wire credit, a debit within both tolerances, a row with a blank
\* date, a row whose amount is out of tolerance
B_wire == Row(Str(<<"0", "1", "/", "2", "9", "/", "2", "0", "2", "4">>),
              Undef, Str(<<"1", ",", "0", "0", "0", ".", "0", "0">>), Blank)
B_debit == Row(Str(<<"2", "-", "1", "-", "2", "0", "2", "4">>),
               Undef, Blank, Str(<<"1", ",", "4", "0", "0", ".", "0", "0">>))
B_blankdate == Row(Blank, Undef, Str(<<"1", ",", "0", "0", "0", ".", "0", "0">>), Blank)
B_far == Row(Str(<<"0", "1", "/", "2", "9", "/", "2", "0", "2", "4">>),
             Undef, Str(<<"2", ",", "0", "0", "0", ".", "0", "0">>), Blank)

\* a right row whose only amount cell is not a number
B_noamount == Row(Str(<<"0", "1", "/", "2", "9", "/", "2", "0", "2", "4">>),
                  Undef, Str(<<"n", "/", "a">>), Blank)

\* rows dated around the end and the start of daylight time in 2024
A_october == Row(Str(<<"1", "0", "/", "3", "0", "/", "2", "0", "2", "4">>),
                 Str(<<"1", ",", "0", "0", "0", ".", "0", "0">>), Undef, Undef)
A_march == Row(Str(<<"0", "3", "/", "0", "6", "/", "2", "0", "2", "4">>),
               Str(<<"1", ",", "0", "0", "0", ".", "0", "0">>), Undef, Undef)
B_november == Row(Str(<<"1", "1", "/", "0", "6", "/", "2", "0", "2", "4">>),
                  Undef, Str(<<"1", ",", "0", "0", "0", ".", "0", "0">>), Blank)
B_march == Row(Str(<<"0", "3", "/", "1", "3", "/", "2", "0", "2", "4">>),
               Undef, Str(<<"1", ",", "0", "0", "0", ".", "0", "0">>), Blank)

\* a left row whose date column is named " DATE "
A_upperdate ==
  [Row(Undef, Str(<<"1", ",", "0", "0", "0", ".", "0", "0">>), Undef, Undef)
     EXCEPT ![" DATE "] = Str(<<"0", "2", "/", "0", "1", "/", "2", "0", "2", "4">>)]

SampleLedgersA ==
  {<<A_invoice, A_short, A_invoice>>,
   <<A_noamount, A_invoice, A_short>>,
   <<A_short, A_nodate, A_invoice>>}

SampleLedgersB ==
  {<<B_wire, B_debit, B_wire>>,
   <<B_blankdate, B_far, B_debit>>}

LedgersA == {SubSeq(L, 1, n) : L \in SampleLedgersA, n \in 0..MaxRowsA}
LedgersB == {SubSeq(L, 1, n) : L \in SampleLedgersB, n \in 0..MaxRowsB}

\* dataA.length > 15 || dataB.length > 15
MAX_ROWS_PER_FILE == 15

\* ledgers above the cap: one row that has candidates, the others without any
OversizedA == [k \in 1..(MAX_ROWS_PER_FILE + 1) |-> IF k = 1 THEN A_invoice ELSE A_noamount]
OversizedB == [k \in 1..(MAX_ROWS_PER_FILE + 1) |-> IF k = 1 THEN B_wire ELSE B_blankdate]

\* ledgers of 8 rows each: 16 rows together, neither file above the cap
HalfCapA == [k \in 1..((MAX_ROWS_PER_FILE + 1) \div 2) |-> IF k = 1 THEN A_invoice ELSE A_noamount]
HalfCapB == [k \in 1..((MAX_ROWS_PER_FILE + 1) \div 2) |-> IF k = 1 THEN B_wire ELSE B_blankdate]

\* the handlers that invoke reconcile: the router's /reconcile route and the
\* app's / route
EntryPoints == {"router", "app"}

\* req.files of a request: both files, one of them, a multipart body without
\* files (req.files is an empty object), a body that is not multipart
\* (req.files is undefined), and both files with one of an extension other
\* than csv, xlsx and xls
Uploads == {"both", "onlyA", "onlyB", "nofiles", "notMultipart", "unsupported"}

Request(e, z, a, b) ==
  [entry |-> e, zone |-> z, files |-> "both", dataA |-> a, dataB |-> b]

\* a request whose files are `files`; the ledgers are what its files hold
UploadRequest(e, files) ==
  [entry |-> e, zone |-> "UTC", files |-> files,
   dataA |-> IF files \in {"both", "onlyA", "unsupported"} THEN <<A_invoice>> ELSE <<>>,
   dataB |-> IF files \in {"both", "onlyB"} THEN <<B_wire>> ELSE <<>>]

\* the requests: every pair of sample ledgers on the router in UTC, the
\* ledgers around the cap on both entry points, and the ledgers around the
\* daylight-time changes on a server in New York and on one in UTC
Requests ==
  {Request("router", "UTC", a, b) : a \in LedgersA, b \in LedgersB}
    \cup {Request(e, "UTC", a, b) :
            e \in EntryPoints,
            a \in {OversizedA, HalfCapA, <<A_invoice>>},
            b \in {OversizedB, HalfCapB, <<B_wire>>}}
    \cup {Request("router", "UTC", <<A_invoice>>, <<B_noamount, B_wire>>)}
    \cup {Request("router", z, <<A_october>>, <<B_november>>) : z \in TimeZones}
    \cup {Request("router", z, <<A_march>>, <<B_march>>) : z \in TimeZones}
    \cup {UploadRequest(e, files) : e \in EntryPoints, files \in Uploads}
    \cup {Request("router", "UTC", <<A_upperdate>>, <<B_wire>>)}

Element(idx, match, confidence, reason) ==
  [isNull |-> FALSE, file_b_index |-> idx, match |-> match,
   confidence |-> confidence, reason |-> reason]

NullElement ==
  [isNull |-> TRUE, file_b_index |-> Undef, match |-> Undef,
   confidence |-> Undef, reason |-> Undef]

Because == Str(<<"same payer and reference">>)

\* a reason that quotes a reference in square brackets
BecauseBracketed == Str(<<"same reference ", "[", "KAI-0026", "]">>)

\* the elements the oracle's arrays are made of
OracleElements ==
  {Element(Num(0), Bool(TRUE), Num(910), Because),
   Element(Num(1), Bool(TRUE), Num(910), Because),
   Element(Num(0), Bool(TRUE), Num(700), Because),
   Element(Num(1), Bool(FALSE), Num(950), Because),
   Element(Num(1), Bool(TRUE), Num(850), Undef),
   Element(Num(0), Bool(TRUE), Num(849), Because),
   Element(Str(<<"1">>), Bool(TRUE), Num(910), Because),
   Element(Undef, Bool(TRUE), Num(910), Because),
   Element(Num(-1), Bool(TRUE), Num(950), Because),
   Element(Num(0), Bool(TRUE), Num(910), BecauseBracketed),
   Element(Num(0), Bool(TRUE), Num(1500), Because),
   Element(Num(1), Bool(FALSE), Num(-200), Blank),
   Element(Num(0), Bool(TRUE), Str(<<"0.95">>), Num(7)),
   NullElement}

RECURSIVE SeqsUpTo(_, _)
SeqsUpTo(S, n) ==
  IF n = 0 THEN {<<>>}
  ELSE LET shorter == SeqsUpTo(S, n - 1)
       IN shorter \cup {Append(q, x) : q \in {r \in shorter : Len(r) = n - 1}, x \in S}

OracleContents ==
  {[shape |-> "array", elems |-> e] : e \in SeqsUpTo(OracleElements, MaxVerdicts)}
    \cup {[shape |-> "fenced", elems |-> <<Element(Num(0), Bool(TRUE), Num(910), Because)>>],
          [shape |-> "object", elems |-> <<>>],
          [shape |-> "prose", elems |-> <<>>]}

\* ------------------------------------------------------------ state

\* no function is being applied
FnIdle == [pc |-> "idle"]

\* the embedding-based router and the client are not running
EmbIdle == [pc |-> "idle"]
UiIdle == [pc |-> "idle"]

\* best, bestConfidence, bestReason and bestIdx of the per-pair variant
PairNoBest == [best |-> Null, bestConfidence |-> 0, bestReason |-> Str(<<>>), bestIdx |-> -1]

VARIABLES
  emb,               \* the embedding-based router: its handler's locals
  ui,                \* the client: the state of App and of FileUpload
  fn,                \* the row a function of the module is applied to, and
                     \* what it returned
  req,               \* the request's files, and whether the handler parsed them
  entry,             \* the handler that received the request
  pair,              \* per-pair variant: position in candidates and best so far
  frames,            \* concurrent requests: each invocation's handler and
                     \* reconcile locals other than the collections
  scopes,            \* concurrent requests: the collections reconcile creates
                     \* (usedA, usedB, matches, llmCandidates), by owning scope
  dataA, dataB,      \* the parsed ledgers handed to reconcile
  normA, normB,      \* reconcile's normalized copies
  pc,                \* "request", "loop", "pairs", "await", "returned", "threw",
                     \* "rejected", "unhandled", "responded"
  i,                 \* the loop index of reconcile
  usedA, usedB,      \* reconcile's used-sets (JS values)
  matches,           \* reconcile's matches array
  llmCandidates,     \* reconcile's llmCandidates array
  candidates,        \* the right indices sent with the outstanding call
  calls,             \* the generateContent calls made so far, with their outcome
  result,            \* <<>> or <<the object reconcile returned>>
  error,             \* the message of the error reconcile threw, "" if none
  responses          \* the responses the route has sent

vars == <<emb, ui, fn, req, frames, scopes, zone, entry, pair, dataA, dataB, normA, normB, pc, i, usedA, usedB, matches,
          llmCandidates, candidates, calls, result, error, responses>>

Init ==
  /\ fn = FnIdle
  /\ emb = EmbIdle
  /\ ui = UiIdle
  /\ \E r \in Requests :
       /\ req = [files |-> r.files, parsed |-> FALSE]
       /\ entry = r.entry
       /\ zone = r.zone
       /\ dataA = r.dataA
       /\ dataB = r.dataB
  /\ normA = <<>>
  /\ normB = <<>>
  /\ pc = "request"
  /\ pair = [pos |-> 0, best |-> PairNoBest]
  /\ frames = <<>>
  /\ scopes = <<>>
  /\ i = 0
  /\ usedA = {}
  /\ usedB = {}
  /\ matches = <<>>
  /\ llmCandidates = <<>>
  /\ candidates = <<>>
  /\ calls = <<>>
  /\ result = <<>>
  /\ error = ""
  /\ responses = <<>>

\* the router's handler answers 400 when either file has more than 15 rows;
\* the app's handler has no such test
RowGuardRejects(e, rowsA, rowsB) ==
  e = "router" /\ (Len(rowsA) > MAX_ROWS_PER_FILE \/ Len(rowsB) > MAX_ROWS_PER_FILE)

TooManyRows == "Too many rows for Gemini free tier. Please upload smaller files."

\* the message of the router's handler and that of the app's handler
BothFilesRequired(e) ==
  IF e = "router" THEN "Both fileA and fileB are required." ELSE "Both files are required."
FilesUndefined == "Cannot read properties of undefined (reading 'fileA')"
UnsupportedExtension == "Unsupported file extension"

\* a handler that asks for one of the files only
FileMissing_BothAbsent(files) == files = "nofiles"

\* !fileA || !fileB, of a req.files that is an object
FileMissing(files) == files \in {"onlyA", "onlyB", "nofiles"}

\* if (!fileA || !fileB) { res.status(400).json(...); return; }
RouteMissingFile ==
  /\ pc = "request"
  /\ req.files # "notMultipart"
  /\ FileMissing(req.files)
  /\ responses' = Append(responses, [status |-> 400, error |-> BothFilesRequired(entry), body |-> <<>>])
  /\ pc' = "responded"
  /\ UNCHANGED <<emb, ui, fn, req, frames, scopes, zone, entry, pair, dataA, dataB, normA, normB, i, usedA, usedB, matches,
                 llmCandidates, candidates, calls, result, error>>

\* files.fileA of an undefined req.files is a TypeError: the router's handler
\* reads it inside its try, the app's handler before its try, where the
\* promise of the async handler rejects
HandlerFilesUndefined ==
  /\ pc = "request"
  /\ req.files = "notMultipart"
  /\ pc' = IF entry = "router" THEN "threw" ELSE "rejected"
  /\ error' = FilesUndefined
  /\ UNCHANGED <<emb, ui, fn, req, frames, scopes, zone, entry, pair, dataA, dataB, normA, normB, i, usedA, usedB, matches,
                 llmCandidates, candidates, calls, result, responses>>

\* parseFile of both files: it throws on an extension it does not know
HandlerParse ==
  /\ pc = "request"
  /\ req.files # "notMultipart"
  /\ ~FileMissing(req.files)
  /\ ~req.parsed
  /\ IF req.files = "unsupported"
       THEN /\ pc' = "threw"
            /\ error' = UnsupportedExtension
            /\ UNCHANGED req
       ELSE /\ req' = [req EXCEPT !.parsed = TRUE]
            /\ UNCHANGED <<pc, error>>
  /\ UNCHANGED <<emb, ui, fn, frames, scopes, zone, entry, pair, dataA, dataB, normA, normB, i, usedA, usedB, matches,
                 llmCandidates, candidates, calls, result, responses>>

\* nothing handles the rejected promise of the app's handler: no response is
\* sent for the request
RejectionUnhandled ==
  /\ pc = "rejected"
  /\ pc' = "unhandled"
  /\ UNCHANGED <<emb, ui, fn, req, frames, scopes, zone, entry, pair, dataA, dataB, normA, normB, i, usedA, usedB, matches,
                 llmCandidates, candidates, calls, result, error, responses>>

\* the framework forwards the rejection to its error handler, which answers 500
RejectionToErrorHandler ==
  /\ pc = "rejected"
  /\ responses' = Append(responses, [status |-> 500, error |-> error, body |-> <<>>])
  /\ pc' = "responded"
  /\ UNCHANGED <<emb, ui, fn, req, frames, scopes, zone, entry, pair, dataA, dataB, normA, normB, i, usedA, usedB, matches,
                 llmCandidates, candidates, calls, result, error>>

\* res.status(400).json({ error: 'Too many rows ...' }); return
RouteReject ==
  /\ pc = "request"
  /\ req.parsed
  /\ RowGuardRejects(entry, dataA, dataB)
  /\ responses' = Append(responses, [status |-> 400, error |-> TooManyRows, body |-> <<>>])
  /\ pc' = "responded"
  /\ UNCHANGED <<emb, ui, fn, req, frames, scopes, zone, entry, pair, dataA, dataB, normA, normB, i, usedA, usedB, matches,
                 llmCandidates, candidates, calls, result, error>>

\* a normalizer that writes the normalized dates into its argument
ArgumentAfter_InPlace(obj) == normalizeDatesInObject(obj)

\* the argument of normalizeDatesInObject after the call: the function
\* assigns to the fresh object out only
ArgumentAfter(obj) == obj

\* reconcile is entered: fresh collections and the normalized copies
ReconcileEnter ==
  /\ pc = "request"
  /\ req.parsed
  /\ ~RowGuardRejects(entry, dataA, dataB)
  /\ normA' = [k \in 1..Len(dataA) |-> normalizeDatesInObject(dataA[k])]
  /\ normB' = [k \in 1..Len(dataB) |-> normalizeDatesInObject(dataB[k])]
  /\ dataA' = [k \in 1..Len(dataA) |-> ArgumentAfter(dataA[k])]
  /\ dataB' = [k \in 1..Len(dataB) |-> ArgumentAfter(dataB[k])]
  /\ pc' = "loop"
  /\ UNCHANGED <<emb, ui, fn, req, frames, scopes, zone, entry, pair, i, usedA, usedB, matches, llmCandidates,
                 candidates, calls, result, error, responses>>

\* a resolver that calls the oracle for an empty candidate set too
ShortCircuits_Never(cands) == FALSE

\* if (candidates.length === 0) continue, and the same test on entry of
\* geminiBatchMatchRow: no call for an empty candidate set
ShortCircuits(cands) == Len(cands) = 0

\* one iteration of the for loop up to the await (or to its continue / throw)
LoopStep ==
  /\ pc = "loop"
  /\ i < Len(normA)
  /\ LET a == normA[i + 1]
     IN IF Num(i) \in usedA
          THEN /\ i' = i + 1
               /\ UNCHANGED <<pc, candidates, calls, error>>
        ELSE IF CandidatesThrows(a, normB, usedB)
          THEN /\ pc' = "threw"
               /\ error' = "Cannot read properties of undefined (reading 'split')"
               /\ UNCHANGED <<i, candidates, calls>>
        ELSE IF ShortCircuits(Candidates(a, normB, usedB))
          THEN /\ i' = i + 1
               /\ UNCHANGED <<pc, candidates, calls, error>>
        ELSE /\ pc' = "await"
             /\ candidates' = Candidates(a, normB, usedB)
             /\ calls' = Append(calls, [file_a_index |-> i,
                                        sent |-> Candidates(a, normB, usedB),
                                        outcome |-> "pending",
                                        content |-> [shape |-> "none", elems |-> <<>>],
                                        verdicts |-> <<>>])
             /\ UNCHANGED <<i, error>>
  /\ UNCHANGED <<emb, ui, fn, req, frames, scopes, zone, entry, pair, dataA, dataB, normA, normB, usedA, usedB, matches,
                 llmCandidates, result, responses>>

\* generateContent resolves with content: parse, audit, pick, commit
OracleReturns(content) ==
  /\ pc = "await"
  /\ LET batchResults == geminiBatchMatchRow(content)
         best == BestMatch(batchResults)
     IN /\ llmCandidates' = llmCandidates \o AuditEntries(i, batchResults, normB)
        /\ IF Commits(best)
             THEN /\ matches' = CommitMatch(matches, MatchEntry(i, best, normB))
                  /\ usedA' = usedA \cup {Num(i)}
                  /\ usedB' = usedB \cup {best.bestIdx}
             ELSE UNCHANGED <<matches, usedA, usedB>>
        /\ calls' = [calls EXCEPT ![Len(calls)] =
                       [@ EXCEPT !.outcome = "returned",
                                 !.content = content,
                                 !.verdicts = batchResults]]
  /\ i' = i + 1
  /\ pc' = "loop"
  /\ candidates' = <<>>
  /\ UNCHANGED <<emb, ui, fn, req, frames, scopes, zone, entry, pair, dataA, dataB, normA, normB, result, error, responses>>

\* an adapter that catches the transport failure like a parse failure
OracleThrows_Swallowed ==
  /\ pc = "await"
  /\ pc' = "loop"
  /\ i' = i + 1
  /\ candidates' = <<>>
  /\ calls' = [calls EXCEPT ![Len(calls)] = [@ EXCEPT !.outcome = "threw"]]
  /\ UNCHANGED <<emb, ui, fn, req, frames, scopes, zone, entry, pair, dataA, dataB, normA, normB, usedA, usedB, matches,
                 llmCandidates, result, error, responses>>

\* generateContent rejects (network, auth, quota) or response.text() throws
OracleThrows ==
  /\ pc = "await"
  /\ pc' = "threw"
  /\ error' = "fetch failed"
  /\ calls' = [calls EXCEPT ![Len(calls)] = [@ EXCEPT !.outcome = "threw"]]
  /\ UNCHANGED <<emb, ui, fn, req, frames, scopes, zone, entry, pair, dataA, dataB, normA, normB, i, usedA, usedB, matches,
                 llmCandidates, candidates, result, responses>>

\* the loop is over: the unmatched lists and the returned object
ReconcileReturn ==
  /\ pc = "loop"
  /\ i >= Len(normA)
  /\ result' = <<[matches |-> matches,
                  unmatched_file_a_entries |-> Unmatched(normA, usedA),
                  unmatched_file_b_entries |-> Unmatched(normB, usedB),
                  llm_candidates |-> llmCandidates]>>
  /\ pc' = "returned"
  /\ UNCHANGED <<emb, ui, fn, req, frames, scopes, zone, entry, pair, dataA, dataB, normA, normB, i, usedA, usedB, matches,
                 llmCandidates, candidates, calls, error, responses>>

\* res.json(result)
RouteRespond ==
  /\ pc = "returned"
  /\ responses' = Append(responses, [status |-> 200, error |-> "", body |-> result])
  /\ pc' = "responded"
  /\ UNCHANGED <<emb, ui, fn, req, frames, scopes, zone, entry, pair, dataA, dataB, normA, normB, i, usedA, usedB, matches,
                 llmCandidates, candidates, calls, result, error>>

\* the route's catch: res.status(500).json({ error })
RouteCatch ==
  /\ pc = "threw"
  /\ responses' = Append(responses, [status |-> 500, error |-> error, body |-> <<>>])
  /\ pc' = "responded"
  /\ UNCHANGED <<emb, ui, fn, req, frames, scopes, zone, entry, pair, dataA, dataB, normA, normB, i, usedA, usedB, matches,
                 llmCandidates, candidates, calls, result, error>>

Next ==
  \/ RouteMissingFile
  \/ HandlerFilesUndefined
  \/ HandlerParse
  \/ RejectionUnhandled
  \/ RejectionToErrorHandler
  \/ RouteReject
  \/ ReconcileEnter
  \/ LoopStep
  \/ \E content \in OracleContents : OracleReturns(content)
  \/ OracleThrows
  \/ ReconcileReturn
  \/ RouteRespond
  \/ RouteCatch

Spec == Init /\ [][Next]_vars

\* ------------------------------------------------------------ per-pair variant

\* The earlier reconcile calls geminiMatchRows once per candidate pair.  Its
\* response text is [shape, elems]: "object" is one JSON object, "fenced" one
\* JSON object inside a markdown fence, "prose" text without any object; elems
\* holds the object, with the keys match, confidence and reason.

DATE_TOLERANCE_DAYS_PAIR == 3
AMOUNT_TOLERANCE_PAIR == 100

FailedToParse == Str(<<"Failed to parse Gemini response">>)

parseGeminiResponse(json) ==
  [confidence |-> IF json.confidence.t = "number" THEN json.confidence.n ELSE 0,
   reason |-> IF Truthy(json.reason) THEN json.reason ELSE NoReasonProvided]

\* what geminiMatchRows resolves to once generateContent returned content:
\* the parsed object, the object the pattern /{[\s\S]*}/ extracts, or the
\* final fallback
geminiMatchRows(content) ==
  IF content.shape \in {"object", "fenced"}
    THEN parseGeminiResponse(content.elems[1])
    ELSE [confidence |-> 0, reason |-> FailedToParse]

PairCandidateFilter(a, b, idx, used) ==
  /\ Num(idx) \notin used
  /\ Truthy(b["Date"])
  /\ datesAreClose(a["Date"], b["Date"], DATE_TOLERANCE_DAYS_PAIR)
  /\ amountsAreClose(getRowAmount(a), getRowAmount(b), AMOUNT_TOLERANCE_PAIR * 100)

PairCandidates(a, rowsB, used) ==
  SelectSeq([k \in 1..Len(rowsB) |-> k - 1],
            LAMBDA idx : PairCandidateFilter(a, rowsB[idx + 1], idx, used))

PairObject(match, confidence, reason) == Element(Undef, match, confidence, reason)

PairContents ==
  {[shape |-> "object", elems |-> <<PairObject(Bool(TRUE), Num(910), Because)>>],
   [shape |-> "object", elems |-> <<PairObject(Bool(FALSE), Num(950), Because)>>],
   [shape |-> "object", elems |-> <<PairObject(Bool(TRUE), Num(700), Because)>>],
   [shape |-> "object", elems |-> <<PairObject(Bool(TRUE), Num(850), Undef)>>],
   [shape |-> "fenced", elems |-> <<PairObject(Bool(TRUE), Num(910), Because)>>],
   [shape |-> "prose", elems |-> <<>>]}

\* one iteration of the outer loop up to the loop over the candidates
PairLoopStep ==
  /\ pc = "loop"
  /\ i < Len(normA)
  /\ LET a == normA[i + 1]
     IN IF Num(i) \in usedA
          THEN /\ i' = i + 1
               /\ UNCHANGED <<pc, candidates, pair, error>>
        ELSE IF CandidatesThrows(a, normB, usedB)
          THEN /\ pc' = "threw"
               /\ error' = "Cannot read properties of undefined (reading 'split')"
               /\ UNCHANGED <<i, candidates, pair>>
        ELSE /\ pc' = "pairs"
             /\ candidates' = PairCandidates(a, normB, usedB)
             /\ pair' = [pos |-> 0, best |-> PairNoBest]
             /\ UNCHANGED <<i, error>>
  /\ UNCHANGED <<emb, ui, fn, req, frames, scopes, zone, entry, dataA, dataB, normA, normB, usedA, usedB, matches,
                 llmCandidates, calls, result, responses>>

\* the loop over the candidates reaches its await for the next pair
PairCall ==
  /\ pc = "pairs"
  /\ pair.pos < Len(candidates)
  /\ calls' = Append(calls, [file_a_index |-> i,
                             sent |-> <<candidates[pair.pos + 1]>>,
                             outcome |-> "pending",
                             content |-> [shape |-> "none", elems |-> <<>>],
                             verdicts |-> <<>>])
  /\ pc' = "await"
  /\ UNCHANGED <<emb, ui, fn, req, frames, scopes, zone, entry, pair, dataA, dataB, normA, normB, i, usedA, usedB,
                 matches, llmCandidates, candidates, result, error, responses>>

\* generateContent resolves with content: parse, audit, keep the best
PairOracleReturns(content) ==
  /\ pc = "await"
  /\ LET res == geminiMatchRows(content)
         idx == candidates[pair.pos + 1]
     IN /\ llmCandidates' = Append(llmCandidates,
                                   [file_a_entry |-> RowRef(i),
                                    file_b_entry |-> RowRef(idx),
                                    confidence_score |-> ToFixed2(res.confidence),
                                    match_reason |-> res.reason,
                                    file_a_index |-> i,
                                    file_b_index |-> Num(idx)])
        /\ pair' = [pos |-> pair.pos + 1,
                    best |-> IF res.confidence > pair.best.bestConfidence
                               THEN [best |-> RowRef(idx),
                                     bestConfidence |-> res.confidence,
                                     bestReason |-> res.reason,
                                     bestIdx |-> idx]
                               ELSE pair.best]
        /\ calls' = [calls EXCEPT ![Len(calls)] =
                       [@ EXCEPT !.outcome = "returned",
                                 !.content = content,
                                 !.verdicts = <<res>>]]
  /\ pc' = "pairs"
  /\ UNCHANGED <<emb, ui, fn, req, frames, scopes, zone, entry, dataA, dataB, normA, normB, i, usedA, usedB, matches,
                 candidates, result, error, responses>>

\* after the last candidate: if (best && bestConfidence >= LLM_MATCH_THRESHOLD)
PairCommit ==
  /\ pc = "pairs"
  /\ pair.pos >= Len(candidates)
  /\ IF Truthy(pair.best.best) /\ pair.best.bestConfidence >= LLM_MATCH_THRESHOLD
       THEN /\ matches' = Append(matches,
                                 [type |-> "1-to-1",
                                  file_a_entry |-> RowRef(i),
                                  file_b_entry |-> pair.best.best,
                                  confidence_score |-> ToFixed2(pair.best.bestConfidence),
                                  match_reason |-> pair.best.bestReason])
            /\ usedA' = usedA \cup {Num(i)}
            /\ usedB' = usedB \cup {Num(pair.best.bestIdx)}
       ELSE UNCHANGED <<matches, usedA, usedB>>
  /\ i' = i + 1
  /\ pc' = "loop"
  /\ candidates' = <<>>
  /\ UNCHANGED <<emb, ui, fn, req, frames, scopes, zone, entry, pair, dataA, dataB, normA, normB, llmCandidates,
                 calls, result, error, responses>>

NextPair ==
  \/ RouteMissingFile
  \/ HandlerFilesUndefined
  \/ HandlerParse
  \/ RejectionUnhandled
  \/ RejectionToErrorHandler
  \/ RouteReject
  \/ ReconcileEnter
  \/ PairLoopStep
  \/ PairCall
  \/ \E content \in PairContents : PairOracleReturns(content)
  \/ OracleThrows
  \/ PairCommit
  \/ ReconcileReturn
  \/ RouteRespond
  \/ RouteCatch

SpecPair == Init /\ [][NextPair]_vars

\* ------------------------------------------------------------ concurrent requests

\* Two requests are in flight in one server process.  Each handler call and
\* each reconcile call has its own locals, and an invocation is suspended at
\* its await until its oracle call resolves.  The steps of the two
\* invocations interleave freely, which includes every interleaving at the
\* awaits.

Invocations == {1, 2}

\* const matches = [], usedA = new Set(), usedB = new Set(), llmCandidates = []
NewCollections == [usedA |-> {}, usedB |-> {}, matches |-> <<>>, llmCandidates |-> <<>>]

\* collections kept at module scope: one set of them for all invocations
ScopeOf_ModuleScope(p) == 1

\* the collections are created inside reconcile: one scope per invocation
ScopeOf(p) == p

\* the collections after the verdicts of content were audited and resolved
\* for left row a
Resolved(st, a, rowsB, content) ==
  LET batchResults == geminiBatchMatchRow(content)
      best == BestMatch(batchResults)
  IN [usedA |-> IF Commits(best) THEN st.usedA \cup {Num(a)} ELSE st.usedA,
      usedB |-> IF Commits(best) THEN st.usedB \cup {best.bestIdx} ELSE st.usedB,
      matches |-> IF Commits(best)
                    THEN CommitMatch(st.matches, MatchEntry(a, best, rowsB))
                    ELSE st.matches,
      llmCandidates |-> st.llmCandidates \o AuditEntries(a, batchResults, rowsB)]

\* the object reconcile returns
Aggregated(st, rowsA, rowsB) ==
  [matches |-> st.matches,
   unmatched_file_a_entries |-> Unmatched(rowsA, st.usedA),
   unmatched_file_b_entries |-> Unmatched(rowsB, st.usedB),
   llm_candidates |-> st.llmCandidates]

TwoLedgersA == {SubSeq(<<A_invoice, A_short, A_invoice>>, 1, n) : n \in 1..MaxRowsA}
TwoLedgersB == {SubSeq(<<B_wire, B_debit, B_wire>>, 1, MaxRowsB)}

TwoContents ==
  {[shape |-> "array", elems |-> <<Element(Num(1), Bool(TRUE), Num(910), Because)>>],
   [shape |-> "array", elems |-> <<Element(Num(0), Bool(TRUE), Num(910), Because)>>],
   [shape |-> "array", elems |-> <<Element(Num(0), Bool(TRUE), Num(700), Because),
                                   Element(Num(1), Bool(FALSE), Num(950), Because)>>],
   [shape |-> "prose", elems |-> <<>>]}

InitTwo ==
  /\ frames \in [Invocations ->
                   {[dataA |-> a, dataB |-> b, normA |-> <<>>, normB |-> <<>>,
                     pc |-> "request", i |-> 0, received |-> <<>>, result |-> <<>>] :
                      a \in TwoLedgersA, b \in TwoLedgersB}]
  /\ scopes = [p \in Invocations |-> NewCollections]
  /\ zone = "UTC"
  /\ fn = FnIdle
  /\ emb = EmbIdle
  /\ ui = UiIdle
  /\ req = [files |-> "both", parsed |-> TRUE]
  /\ entry = "app"
  /\ pair = [pos |-> 0, best |-> PairNoBest]
  /\ dataA = <<>>
  /\ dataB = <<>>
  /\ normA = <<>>
  /\ normB = <<>>
  /\ pc = "idle"
  /\ i = 0
  /\ usedA = {}
  /\ usedB = {}
  /\ matches = <<>>
  /\ llmCandidates = <<>>
  /\ candidates = <<>>
  /\ calls = <<>>
  /\ result = <<>>
  /\ error = ""
  /\ responses = <<>>

\* the variables of the single-request specifications
single == <<emb, ui, fn, req, zone, entry, pair, dataA, dataB, normA, normB, pc, i, usedA, usedB,
            matches, llmCandidates, candidates, calls, result, error, responses>>

\* the handler of request p parsed its files and entered reconcile
TwoEnter(p) ==
  /\ frames[p].pc = "request"
  /\ LET f == frames[p]
     IN frames' = [frames EXCEPT ![p] =
          [f EXCEPT !.normA = [k \in 1..Len(f.dataA) |-> normalizeDatesInObject(f.dataA[k])],
                    !.normB = [k \in 1..Len(f.dataB) |-> normalizeDatesInObject(f.dataB[k])],
                    !.pc = "loop"]]
  /\ scopes' = [scopes EXCEPT ![ScopeOf(p)] = NewCollections]
  /\ UNCHANGED single

\* one iteration of the loop of invocation p up to its await
TwoLoopStep(p) ==
  /\ frames[p].pc = "loop"
  /\ frames[p].i < Len(frames[p].normA)
  /\ LET f == frames[p]
         st == scopes[ScopeOf(p)]
         a == f.normA[f.i + 1]
     IN frames' = [frames EXCEPT ![p] =
          IF Num(f.i) \in st.usedA THEN [f EXCEPT !.i = f.i + 1]
          ELSE IF CandidatesThrows(a, f.normB, st.usedB) THEN [f EXCEPT !.pc = "threw"]
          ELSE IF ShortCircuits(Candidates(a, f.normB, st.usedB)) THEN [f EXCEPT !.i = f.i + 1]
          ELSE [f EXCEPT !.pc = "await"]]
  /\ UNCHANGED scopes
  /\ UNCHANGED single

\* the oracle call of invocation p resolves with content
TwoOracleReturns(p, content) ==
  /\ frames[p].pc = "await"
  /\ scopes' = [scopes EXCEPT ![ScopeOf(p)] =
                  Resolved(@, frames[p].i, frames[p].normB, content)]
  /\ LET f == frames[p]
     IN frames' = [frames EXCEPT ![p] =
          [f EXCEPT !.i = f.i + 1, !.pc = "loop", !.received = Append(f.received, content)]]
  /\ UNCHANGED single

\* the oracle call of invocation p rejects
TwoOracleThrows(p) ==
  /\ frames[p].pc = "await"
  /\ frames' = [frames EXCEPT ![p].pc = "threw"]
  /\ UNCHANGED scopes
  /\ UNCHANGED single

\* the loop of invocation p is over: reconcile returns its result
TwoReturn(p) ==
  /\ frames[p].pc = "loop"
  /\ frames[p].i >= Len(frames[p].normA)
  /\ LET f == frames[p]
     IN frames' = [frames EXCEPT ![p] =
          [f EXCEPT !.result = <<Aggregated(scopes[ScopeOf(p)], f.normA, f.normB)>>,
                    !.pc = "returned"]]
  /\ UNCHANGED scopes
  /\ UNCHANGED single

NextTwo ==
  \/ \E p \in Invocations : TwoEnter(p)
  \/ \E p \in Invocations : TwoLoopStep(p)
  \/ \E p \in Invocations : \E content \in TwoContents : TwoOracleReturns(p, content)
  \/ \E p \in Invocations : TwoOracleThrows(p)
  \/ \E p \in Invocations : TwoReturn(p)

SpecTwo == InitTwo /\ [][NextTwo]_vars

\* ------------------------------------------------------------ the row functions

\* the values a date cell can hold: serial numbers of 2024 and the bounds of
\* the serial range, a number outside it, dates with four-digit and two-digit
\* years around the pivot, padded and unpadded, with either separator and with
\* surrounding blanks, strings that are no date, the empty string, null, and
\* an absent cell
DateValues ==
  {Num(45320), Num(45323), Num(Excel_Serial_Low), Num(Excel_Serial_High), Num(12345),
   Blank, Null, Undef,
   Str(<<"0", "2", "/", "0", "1", "/", "2", "0", "2", "4">>),
   Str(<<"2", "-", "1", "-", "2", "0", "2", "4">>),
   Str(<<"1", "/", "3", "0", "/", "2", "4">>),
   Str(<<"1", "2", "-", "3", "1", "-", "9", "9">>),
   Str(<<"3", "/", "5", "/", "0", "0">>),
   Str(<<"7", "/", "4", "/", "4", "9">>),
   Str(<<"1", "0", "/", "1", "0", "/", "5", "0">>),
   Str(<<"6", "/", "1", "5", "/", "7", "1">>),
   Str(<<" ", "1", "/", "2", "/", "2", "4", " ">>),
   Str(<<"n", "/", "a">>),
   Str(<<" ", "2", "0", "2", "4", "-", "0", "2", "-", "0", "1", " ">>),
   Str(<<"1", "/", "2", "/", "0", "2", "4">>),
   Str(<<"1", "3", "/", "4", "5", "/", "2", "0", "2", "4">>)}

AmountValues ==
  {Undef, Blank, Str(<<" ">>), Num(0), Num(250),
   Str(<<"1", ",", "0", "0", "0", ".", "0", "0">>)}
CreditValues == {Undef, Blank, Num(0), Str(<<"5", "0", "0", ".", "0", "0">>)}
DebitValues == {Undef, Str(<<"7", "5", ".", "0", "0">>)}

\* the rows the functions are applied to: every date value under the key Date
\* and under the key " DATE ", in an object and in an array of objects under
\* the key Meta, next to an amount; and every combination of the amount cells
FnRows ==
  {Row(d, Str(<<"7", "5", ".", "0", "0">>), Undef, Undef) : d \in DateValues}
    \cup {[Row(Undef, Num(250), Undef, Undef) EXCEPT ![" DATE "] = d] : d \in DateValues}
    \cup {[Row(Str(<<"1", "/", "3", "0", "/", "2", "4">>), Undef, Undef, Undef)
             EXCEPT !["Meta"] = Nested(Row(d, Num(0), Undef, Undef))] : d \in DateValues}
    \cup {[Row(Str(<<"1", "/", "3", "0", "/", "2", "4">>), Undef, Undef, Undef)
             EXCEPT !["Meta"] = ArrayOf(<<Row(d, Num(0), Undef, Undef)>>)] : d \in DateValues}
    \cup {Row(Blank, a, c, d) : a \in AmountValues, c \in CreditValues, d \in DebitValues}

InitFn ==
  /\ emb = EmbIdle
  /\ ui = UiIdle
  /\ \E row \in FnRows : fn = [pc |-> "row", row |-> row]
  /\ zone \in TimeZones
  /\ req = [files |-> "both", parsed |-> TRUE]
  /\ frames = <<>>
  /\ scopes = <<>>
  /\ entry = "router"
  /\ pair = [pos |-> 0, best |-> PairNoBest]
  /\ dataA = <<>>
  /\ dataB = <<>>
  /\ normA = <<>>
  /\ normB = <<>>
  /\ pc = "idle"
  /\ i = 0
  /\ usedA = {}
  /\ usedB = {}
  /\ matches = <<>>
  /\ llmCandidates = <<>>
  /\ candidates = <<>>
  /\ calls = <<>>
  /\ result = <<>>
  /\ error = ""
  /\ responses = <<>>

\* getRowAmount(row)
FnGetRowAmount ==
  /\ fn.pc = "row"
  /\ fn' = [pc |-> "amount", row |-> fn.row, amount |-> getRowAmount(fn.row)]
  /\ UNCHANGED <<emb, ui, req, frames, scopes, zone, entry, pair, dataA, dataB, normA, normB, pc, i, usedA, usedB,
                 matches, llmCandidates, candidates, calls, result, error, responses>>

\* normalizeDatesInObject(row)
FnNormalize ==
  /\ fn.pc = "amount"
  /\ fn' = [pc |-> "once", row |-> fn.row, amount |-> fn.amount,
            once |-> normalizeDatesInObject(fn.row)]
  /\ UNCHANGED <<emb, ui, req, frames, scopes, zone, entry, pair, dataA, dataB, normA, normB, pc, i, usedA, usedB,
                 matches, llmCandidates, candidates, calls, result, error, responses>>

\* normalizeDatesInObject of what normalizeDatesInObject returned
FnNormalizeAgain ==
  /\ fn.pc = "once"
  /\ fn' = [pc |-> "twice", row |-> fn.row, amount |-> fn.amount, once |-> fn.once,
            twice |-> normalizeDatesInObject(fn.once)]
  /\ UNCHANGED <<emb, ui, req, frames, scopes, zone, entry, pair, dataA, dataB, normA, normB, pc, i, usedA, usedB,
                 matches, llmCandidates, candidates, calls, result, error, responses>>

NextFn ==
  \/ FnGetRowAmount
  \/ FnNormalize
  \/ FnNormalizeAgain

SpecFn == InitFn /\ [][NextFn]_vars

\* ------------------------------------------------------------ embedding-based variant

AI_SIMILARITY_THRESHOLD == 850

\* a transaction: its entries in the order of the file's header
Tx(date, amount) == <<<<"Date", date>>, <<"Amount", amount>>>>

\* the rows of the ledgers; wire_reordered has the entries of wire with Amount
\* before Date
T ==
  [rent |-> Tx("02/01/2024", "1,000.00"),
   fee |-> Tx("02/03/2024", "25.00"),
   wire |-> Tx("01/29/2024", "1,000.00"),
   card |-> Tx("02/02/2024", "25.10"),
   wire_reordered |-> <<<<"Amount", "1,000.00">>, <<"Date", "01/29/2024">>>>]

\* JSON.stringify(row): the entries in their order, as the tokens of the text
RECURSIVE StringifyEntries(_)
StringifyEntries(entries) ==
  IF Len(entries) = 0 THEN <<>>
  ELSE <<"\"", entries[1][1], "\":\"", entries[1][2], "\"">>
         \o (IF Len(entries) > 1 THEN <<",">> ELSE <<>>)
         \o StringifyEntries(Tail(entries))

Stringify(row) == <<"{">> \o StringifyEntries(row) \o <<"}">>

\* the embeddings getEmbedding returns: vectors of the plane, one of them zero
Embeddings == {<<3, 4>>, <<4, 3>>, <<5, 0>>, <<0, 0>>}

\* dot / (normA * normB) in thousandths; 0 / 0 is NaN; NormOf is Math.sqrt of
\* the sum of squares, for the vectors of Embeddings
cosineSimilarity(a, b) ==
  LET dot == a[1] * b[1] + a[2] * b[2]
      NormOf(v) == CHOOSE n \in 0..5 : n * n = v[1] * v[1] + v[2] * v[2]
  IN IF NormOf(a) * NormOf(b) = 0 THEN NaN
     ELSE Finite((dot * 1000) \div (NormOf(a) * NormOf(b)))

\* the loops of matchTransactions: the positions, in order, of the rows for
\* which set.has(JSON.stringify(row)) is member
RECURSIVE KeptUpTo(_, _, _, _)
KeptUpTo(rows, set, member, k) ==
  IF k = 0 THEN <<>>
  ELSE IF (Stringify(rows[k]) \in set) = member
    THEN Append(KeptUpTo(rows, set, member, k - 1), k)
  ELSE KeptUpTo(rows, set, member, k - 1)

\* matchTransactions: rows are referred to by their position in their ledger
matchTransactions(a, b) ==
  LET bSet == {Stringify(b[k]) : k \in 1..Len(b)}
      aSet == {Stringify(a[k]) : k \in 1..Len(a)}
  IN [matched |-> KeptUpTo(a, bSet, TRUE, Len(a)),
      unmatchedA |-> KeptUpTo(a, bSet, FALSE, Len(a)),
      unmatchedB |-> KeptUpTo(b, aSet, FALSE, Len(b))]

NoEmbedding == <<>>

\* the inner loop over unmatchedB from j on: bestScore and bestIdx
RECURSIVE BestFrom(_, _, _, _, _)
BestFrom(aEmbedding, bEmbeddings, taken, j, best) ==
  IF j >= Len(bEmbeddings) THEN best
  ELSE IF j \in taken \/ bEmbeddings[j + 1] = NoEmbedding
    THEN BestFrom(aEmbedding, bEmbeddings, taken, j + 1, best)
  ELSE LET score == cosineSimilarity(aEmbedding, bEmbeddings[j + 1])
       IN IF ~score.nan /\ score.v > best.bestScore
            THEN BestFrom(aEmbedding, bEmbeddings, taken, j + 1,
                          [bestScore |-> score.v, bestIdx |-> j])
            ELSE BestFrom(aEmbedding, bEmbeddings, taken, j + 1, best)

\* unmatchedA.filter(tx => !alreadyMatched.has(JSON.stringify(tx)))
FinalUnmatchedA(e) ==
  SelectSeq(e.unmatchedA, LAMBDA k : Stringify(e.dataA[k]) \notin e.alreadyMatched)

\* unmatchedB.filter((_, idx) => !aiMatchedB.has(idx))
FinalUnmatchedB(e) ==
  LET keptAt == {j \in 1..Len(e.unmatchedB) : (j - 1) \notin e.aiMatchedB}
  IN SelectSeq(e.unmatchedB, LAMBDA k : \E j \in keptAt : e.unmatchedB[j] = k)

EmbedLedgers ==
  [A |-> {<<T.rent, T.rent>>, <<T.rent, T.fee, T.rent>>, <<T.rent, T.fee>>,
          <<T.wire_reordered, T.fee>>, <<>>},
   B |-> {<<T.wire, T.card>>, <<T.rent, T.card>>, <<T.card>>, <<>>}]

server == <<fn, req, frames, scopes, zone, entry, pair, dataA, dataB, normA, normB, pc, i,
                 usedA, usedB, matches, llmCandidates, candidates, calls, result, error, responses>>

InitEmbed ==
  /\ \E a \in EmbedLedgers.A, b \in EmbedLedgers.B, key \in BOOLEAN :
       emb = [pc |-> "request", dataA |-> a, dataB |-> b, hasKey |-> key,
              matched |-> <<>>, unmatchedA |-> <<>>, unmatchedB |-> <<>>,
              alreadyMatched |-> {}, bEmbeddings |-> <<>>, i |-> 0,
              aiMatched |-> <<>>, aiMatchedB |-> {}, aiPairs |-> {}, response |-> <<>>]
  /\ ui = UiIdle
  /\ fn = FnIdle
  /\ req = [files |-> "both", parsed |-> TRUE]
  /\ zone = "UTC"
  /\ frames = <<>>
  /\ scopes = <<>>
  /\ entry = "router"
  /\ pair = [pos |-> 0, best |-> PairNoBest]
  /\ dataA = <<>>
  /\ dataB = <<>>
  /\ normA = <<>>
  /\ normB = <<>>
  /\ pc = "idle"
  /\ i = 0
  /\ usedA = {}
  /\ usedB = {}
  /\ matches = <<>>
  /\ llmCandidates = <<>>
  /\ candidates = <<>>
  /\ calls = <<>>
  /\ result = <<>>
  /\ error = ""
  /\ responses = <<>>

\* matchTransactions(dataA, dataB), alreadyMatched, and the entry of
\* aiMatchTransactions: it returns at once without a key or with an empty list
EmbedExactMatch ==
  /\ emb.pc = "request"
  /\ LET m == matchTransactions(emb.dataA, emb.dataB)
     IN emb' = [emb EXCEPT
                  !.matched = m.matched,
                  !.unmatchedA = m.unmatchedA,
                  !.unmatchedB = m.unmatchedB,
                  !.alreadyMatched = {Stringify(emb.dataA[m.matched[q]]) : q \in 1..Len(m.matched)},
                  !.pc = IF ~emb.hasKey \/ Len(m.unmatchedA) = 0 \/ Len(m.unmatchedB) = 0
                           THEN "filter" ELSE "embedB"]
  /\ UNCHANGED <<ui, server>>

\* Promise.all of getEmbedding over unmatchedB: each call returns an embedding
\* or fails, which leaves null
EmbedRight(embeddings) ==
  /\ emb.pc = "embedB"
  /\ Len(embeddings) = Len(emb.unmatchedB)
  /\ emb' = [emb EXCEPT !.bEmbeddings = embeddings, !.pc = "loop"]
  /\ UNCHANGED <<ui, server>>

\* getEmbedding of unmatchedA[i] fails: continue
EmbedLeftFails ==
  /\ emb.pc = "loop"
  /\ emb.i < Len(emb.unmatchedA)
  /\ emb' = [emb EXCEPT !.i = emb.i + 1]
  /\ UNCHANGED <<ui, server>>

\* getEmbedding of unmatchedA[i] returns: the inner loop and the commit
EmbedLeftReturns(aEmbedding) ==
  /\ emb.pc = "loop"
  /\ emb.i < Len(emb.unmatchedA)
  /\ LET best == BestFrom(aEmbedding, emb.bEmbeddings, emb.aiMatchedB, 0,
                          [bestScore |-> -1, bestIdx |-> -1])
         txA == emb.unmatchedA[emb.i + 1]
     IN IF best.bestScore >= AI_SIMILARITY_THRESHOLD /\ best.bestIdx # -1
          THEN emb' = [emb EXCEPT
                         !.aiMatched = Append(emb.aiMatched, txA),
                         !.aiMatchedB = emb.aiMatchedB \cup {best.bestIdx},
                         !.aiPairs = emb.aiPairs \cup {<<txA, best.bestIdx>>},
                         !.alreadyMatched = emb.alreadyMatched \cup {Stringify(emb.dataA[txA])},
                         !.i = emb.i + 1]
          ELSE emb' = [emb EXCEPT !.i = emb.i + 1]
  /\ UNCHANGED <<ui, server>>

\* aiMatchTransactions returns
EmbedReturn ==
  /\ emb.pc = "loop"
  /\ emb.i >= Len(emb.unmatchedA)
  /\ emb' = [emb EXCEPT !.pc = "filter"]
  /\ UNCHANGED <<ui, server>>

\* the final filters and res.json
EmbedRespond ==
  /\ emb.pc = "filter"
  /\ emb' = [emb EXCEPT
               !.pc = "responded",
               !.response = <<[matched_transactions |-> emb.matched \o emb.aiMatched,
                               unmatched_transactions_fileA |-> FinalUnmatchedA(emb),
                               unmatched_transactions_fileB |-> FinalUnmatchedB(emb)]>>]
  /\ UNCHANGED <<ui, server>>

\* the arrays Promise.all can resolve to for n right rows

NextEmbed ==
  \/ EmbedExactMatch
  \/ \E embeddings \in SeqsUpTo(Embeddings \cup {NoEmbedding}, MaxRowsB) : EmbedRight(embeddings)
  \/ EmbedLeftFails
  \/ \E aEmbedding \in Embeddings : EmbedLeftReturns(aEmbedding)
  \/ EmbedReturn
  \/ EmbedRespond

SpecEmbed == InitEmbed /\ [][NextEmbed]_vars

\* ------------------------------------------------------------ client

MaxSubmits == 2

\* 5 * 1024 * 1024
MAX_FILE_SIZE == 5242880

AllowedTypes ==
  {"text/csv",
   "application/vnd.openxmlformats-officedocument.spreadsheetml.sheet",
   "application/vnd.ms-excel"}

File(name, type, size) == [name |-> name, type |-> type, size |-> size]

\* null in a file slot of FileUpload
NoFile == File("", "", -1)

\* the files the user can pick: two that pass, one of the largest size that
\* passes, one byte more, and two of other types
Files ==
  {File("a.csv", "text/csv", 2048),
   File("b.xls", "application/vnd.ms-excel", MAX_FILE_SIZE),
   File("big.csv", "text/csv", MAX_FILE_SIZE + 1),
   File("scan.pdf", "application/pdf", 2048),
   File("notes.csv", "", 2048)}

\* a validation that tests the size only
TypeAllowed_Any(file) == TRUE

\* allowedTypes.includes(file.type)
TypeAllowed(file) == file.type \in AllowedTypes

\* the state of FileUpload after handleFileChange for the slot `slot` with
\* the chosen file, NoFile when e.target.files is empty
handleFileChange(u, slot, file) ==
  IF file = NoFile THEN u
  ELSE IF ~TypeAllowed(file)
    THEN [u EXCEPT ![slot] = NoFile,
                   !.uploadError = "Invalid file type. Please upload a CSV or Excel file."]
  ELSE IF file.size > MAX_FILE_SIZE
    THEN [u EXCEPT ![slot] = NoFile, !.uploadError = "File too large (max 5MB)."]
  ELSE [u EXCEPT ![slot] = file, !.uploadError = ""]

\* an App.handleSubmit that keeps the previous result until the response
SubmitStart_KeepsResult(u) ==
  [u EXCEPT !.loading = TRUE, !.error = "", !.success = "", !.pc = "await"]

\* App.handleSubmit up to its await: the five set calls and the request
SubmitStart(u) ==
  [u EXCEPT !.loading = TRUE, !.error = "", !.success = "", !.result = <<>>,
            !.rawJson = <<>>, !.pc = "await"]

\* FileUpload.handleSubmit, and App.handleSubmit when onSubmit is called
handleSubmit(u) ==
  IF u.fileA = NoFile \/ u.fileB = NoFile
    THEN [u EXCEPT !.uploadError = "Please select both files."]
    ELSE SubmitStart([u EXCEPT !.uploadError = "",
                               !.submitted = Append(u.submitted,
                                                    [fileA |-> u.fileA, fileB |-> u.fileB,
                                                     loading |-> u.loading])])

\* the disabled attributes: the inputs and Reset, and Submit; App passes no
\* disabled prop
InputDisabled(u) == u.loading
SubmitDisabled(u) == u.fileA = NoFile \/ u.fileB = NoFile \/ u.loading

\* response.data of a 2xx response: the body of the embedding-based router,
\* a body without matched_transactions, and a null body
ResponseBodies ==
  {[isNull |-> FALSE, hasMatched |-> TRUE, matched_transactions |-> <<T.rent>>],
   [isNull |-> FALSE, hasMatched |-> FALSE, matched_transactions |-> <<>>],
   [isNull |-> TRUE, hasMatched |-> FALSE, matched_transactions |-> <<>>]}

\* what axios rejects with: err.response.data.message and err.message
Rejections ==
  {[responseMessage |-> "Both files are required.",
    message |-> "Request failed with status code 400"],
   [responseMessage |-> "", message |-> "Request failed with status code 500"],
   [responseMessage |-> "", message |-> "Network Error"],
   [responseMessage |-> "", message |-> ""]}

InitClient ==
  /\ ui = [pc |-> "idle", fileA |-> NoFile, fileB |-> NoFile, uploadError |-> "",
           loading |-> FALSE, result |-> <<>>, rawJson |-> <<>>, error |-> "",
           success |-> "", caught |-> "", submitted |-> <<>>]
  /\ emb = EmbIdle
  /\ fn = FnIdle
  /\ req = [files |-> "both", parsed |-> TRUE]
  /\ zone = "UTC"
  /\ frames = <<>>
  /\ scopes = <<>>
  /\ entry = "router"
  /\ pair = [pos |-> 0, best |-> PairNoBest]
  /\ dataA = <<>>
  /\ dataB = <<>>
  /\ normA = <<>>
  /\ normB = <<>>
  /\ pc = "idle"
  /\ i = 0
  /\ usedA = {}
  /\ usedB = {}
  /\ matches = <<>>
  /\ llmCandidates = <<>>
  /\ candidates = <<>>
  /\ calls = <<>>
  /\ result = <<>>
  /\ error = ""
  /\ responses = <<>>

\* the user picks a file, or closes the dialog, in an input that is enabled
ChangeFile(slot, file) ==
  /\ ui.pc = "idle"
  /\ ~InputDisabled(ui)
  /\ ui' = handleFileChange(ui, slot, file)
  /\ UNCHANGED <<emb, server>>

\* the user clicks Submit while it is enabled
ClickSubmit ==
  /\ ui.pc = "idle"
  /\ ~SubmitDisabled(ui)
  /\ Len(ui.submitted) < MaxSubmits
  /\ ui' = handleSubmit(ui)
  /\ UNCHANGED <<emb, server>>

\* the user clicks Reset while it is enabled: resetFiles
ClickReset ==
  /\ ui.pc = "idle"
  /\ ~InputDisabled(ui)
  /\ ui' = [ui EXCEPT !.fileA = NoFile, !.fileB = NoFile, !.uploadError = ""]
  /\ UNCHANGED <<emb, server>>

\* axios.post resolves: the rest of the try block; reading a property of a
\* null response.data throws after setRawJson
RequestResolves(data) ==
  /\ ui.pc = "await"
  /\ IF data.isNull
       THEN ui' = [ui EXCEPT !.rawJson = <<>>, !.pc = "catch",
                             !.caught = "Cannot read properties of null"]
       ELSE ui' = [ui EXCEPT
                     !.rawJson = <<data>>,
                     !.result = <<[matched |-> data.matched_transactions, data |-> data]>>,
                     !.success = "Reconciliation complete!",
                     !.pc = "finally"]
  /\ UNCHANGED <<emb, server>>

\* axios.post rejects; the text of the catch is
\* err?.response?.data?.message || err.message || 'API request failed.'
RequestRejects(err) ==
  /\ ui.pc = "await"
  /\ ui' = [ui EXCEPT !.pc = "catch",
                      !.caught = IF err.responseMessage # "" THEN err.responseMessage
                                 ELSE IF err.message # "" THEN err.message
                                 ELSE "API request failed."]
  /\ UNCHANGED <<emb, server>>

\* catch: setError
CatchSetsError ==
  /\ ui.pc = "catch"
  /\ ui' = [ui EXCEPT !.error = ui.caught, !.pc = "finally"]
  /\ UNCHANGED <<emb, server>>

\* finally: setLoading(false)
FinallyStopsLoading ==
  /\ ui.pc = "finally"
  /\ ui' = [ui EXCEPT !.loading = FALSE, !.pc = "idle", !.caught = ""]
  /\ UNCHANGED <<emb, server>>

NextClient ==
  \/ \E slot \in {"fileA", "fileB"} : \E file \in Files \cup {NoFile} : ChangeFile(slot, file)
  \/ ClickSubmit
  \/ ClickReset
  \/ \E data \in ResponseBodies : RequestResolves(data)
  \/ \E err \in Rejections : RequestRejects(err)
  \/ CatchSetsError
  \/ FinallyStopsLoading

\* The request of a submit is settled by the browser, and the continuation of
\* handleSubmit runs when it is; the user may stop acting at any time.
SpecClient ==
  /\ InitClient
  /\ [][NextClient]_vars
  /\ WF_vars(\/ \E data \in ResponseBodies : RequestResolves(data)
             \/ \E err \in Rejections : RequestRejects(err)
             \/ CatchSetsError
             \/ FinallyStopsLoading)

\* ------------------------------------------------------------ properties

Range(f) == {f[k] : k \in DOMAIN f}

\* the verdicts of the first k calls in the order they were returned, each
\* with the left index of its call
RECURSIVE VerdictLog(_)
VerdictLog(k) ==
  IF k = 0 THEN <<>>
  ELSE VerdictLog(k - 1) \o
         [j \in 1..Len(calls[k].verdicts) |->
            [file_a_index |-> calls[k].file_a_index, verdict |-> calls[k].verdicts[j]]]

\* the audit entries recorded for left row a
AuditOf(a) == SelectSeq(llmCandidates, LAMBDA e : e.file_a_index = a)

\* a step in which the outstanding call returns a response text
ReturnStep == pc = "await" /\ pc' = "loop"

\* the verdicts of the call that returned in this step
Returned == calls'[Len(calls')].verdicts

Flagged(V) == {k \in 1..Len(V) : V[k].match}

MaxConfidence(V) == CHOOSE c \in {V[k].confidence : k \in Flagged(V)} :
                      \A k \in Flagged(V) : V[k].confidence <= c

FirstMax(V) == CHOOSE k \in Flagged(V) :
                 /\ V[k].confidence = MaxConfidence(V)
                 /\ \A q \in Flagged(V) : V[q].confidence = MaxConfidence(V) => k <= q

\* C1: the committed matches are strictly 1:1, whatever file_b_index values
\* the oracle returns: no left row and no right row is in two matches.
C1_StrictOneToOne ==
  \A k1, k2 \in 1..Len(matches) :
    k1 < k2 =>
      /\ matches[k1].file_a_entry # matches[k2].file_a_entry
      /\ matches[k1].file_b_entry.t = "object"
           => matches[k1].file_b_entry # matches[k2].file_b_entry

\* C2: in the returned result no unmatched row is the left or right row of a
\* match, and the unmatched lists are exactly the rows no match holds.
C2_UnmatchedIsComplement ==
  result # <<>> =>
    LET r == result[1]
        leftOf == {r.matches[k].file_a_entry : k \in 1..Len(r.matches)}
        rightOf == {r.matches[k].file_b_entry : k \in 1..Len(r.matches)}
    IN /\ \A j \in 0..(Len(normA) - 1) :
            RowRef(j) \in Range(r.unmatched_file_a_entries) <=> RowRef(j) \notin leftOf
       /\ \A j \in 0..(Len(normB) - 1) :
            RowRef(j) \in Range(r.unmatched_file_b_entries) <=> RowRef(j) \notin rightOf

\* the audit trail is the log of returned verdicts, entry by entry
C3_EveryVerdictOnce ==
  LET log == VerdictLog(Len(calls))
  IN /\ Len(llmCandidates) = Len(log)
     /\ \A k \in 1..Len(log) :
          /\ llmCandidates[k].file_a_index = log[k].file_a_index
          /\ llmCandidates[k].file_b_index = log[k].verdict.file_b_index
          /\ llmCandidates[k].match_reason = log[k].verdict.reason
          /\ llmCandidates[k].confidence_score = ToFixed2(log[k].verdict.confidence)

C3_AppendOnly ==
  /\ Len(llmCandidates') >= Len(llmCandidates)
  /\ SubSeq(llmCandidates', 1, Len(llmCandidates)) = llmCandidates

\* C3: every verdict geminiBatchMatchRow returns is appended to llmCandidates
\* exactly once, in order, whether or not it is flagged a match, reaches the
\* threshold or is committed; llmCandidates is append-only.
C3_AuditTrailComplete == [](C3_EveryVerdictOnce) /\ [][C3_AppendOnly]_vars

\* C3 witness: a finished run that committed nothing and whose audit trail
\* holds two verdicts of one call, one of them not flagged a match.
C3_Witness ==
  /\ pc = "returned"
  /\ Len(matches) = 0
  /\ Len(llmCandidates) = 2
  /\ Len(calls) = 1
  /\ Len(calls[1].verdicts) = 2
  /\ ~calls[1].verdicts[2].match
  /\ calls[1].verdicts[1].confidence < LLM_MATCH_THRESHOLD

\* C4: for every call that returned, llmCandidates holds exactly one entry per
\* candidate pair sent (same left index, same right index) and no entry for a
\* pair that was not sent.
C4_OneEntryPerPairSent ==
  \A k \in 1..Len(calls) :
    calls[k].outcome = "returned" =>
      LET entries == AuditOf(calls[k].file_a_index)
      IN /\ \A idx \in Range(calls[k].sent) :
              Cardinality({j \in 1..Len(entries) : entries[j].file_b_index = Num(idx)}) = 1
         /\ \A j \in 1..Len(entries) :
              \E idx \in Range(calls[k].sent) : entries[j].file_b_index = Num(idx)

\* C5: when the response of a call is not parseable as structured data, every
\* candidate of that batch is in the audit trail with confidence 0 and a
\* parse-failure reason.
C5_ParseFailureIsAudited ==
  \A k \in 1..Len(calls) :
    (calls[k].outcome = "returned" /\ calls[k].content.shape \in {"prose", "object"}) =>
      \A idx \in Range(calls[k].sent) :
        \E e \in Range(AuditOf(calls[k].file_a_index)) :
          /\ e.file_b_index = Num(idx)
          /\ e.confidence_score = 0
          /\ e.match_reason.t = "string"

\* a response text that is not an array of well-formed verdict objects: not
\* JSON, not an array, or an array with a null element or an element whose
\* file_b_index is missing or not a number
MalformedContent(content) ==
  \/ content.shape \in {"prose", "object"}
  \/ \E k \in 1..Len(content.elems) :
       content.elems[k].isNull \/ content.elems[k].file_b_index.t # "number"

C6_Step ==
  (ReturnStep /\ MalformedContent(calls'[Len(calls')].content)) =>
    /\ i' = i + 1
    /\ matches' = matches
    /\ usedA' = usedA
    /\ usedB' = usedB

\* C6: for any malformed response text the call does not throw and reconcile
\* does not abort: the row stays unmatched, matches and both used-sets are
\* unchanged by it, and the loop goes on to the next left row.
C6_MalformedDegradesToNoMatch == [][C6_Step]_vars

\* C7: a transport failure of an oracle call propagates out of reconcile and
\* the request gets one terminal error; no response carries a partial result.
C7_TransportFailureIsTerminal ==
  /\ Len(responses) <= 1
  /\ \A r \in Range(responses) :
       r.body # <<>> => (r.status = 200 /\ r.body = result /\ i = Len(normA))
  /\ (\E k \in 1..Len(calls) : calls[k].outcome = "threw") =>
       /\ pc \in {"threw", "responded"}
       /\ result = <<>>
       /\ \A r \in Range(responses) :
            r.status = 500 /\ r.body = <<>> /\ r.error = "fetch failed"

\* C7 witness: the second call failed in transport after the first row was
\* committed and audited, and the request was answered with the error alone.
C7_Witness ==
  /\ pc = "responded"
  /\ Len(calls) = 2
  /\ calls[2].outcome = "threw"
  /\ Len(matches) = 1
  /\ Len(llmCandidates) > 0
  /\ responses = <<[status |-> 500, error |-> "fetch failed", body |-> <<>>]>>

C8_Inv ==
  /\ \A k \in 1..Len(calls) :
       /\ Len(calls[k].sent) > 0
       /\ \A q \in 1..Len(calls) : k < q => calls[k].file_a_index < calls[q].file_a_index
  /\ result # <<>> =>
       \A a \in 0..(Len(normA) - 1) :
         (\A k \in 1..Len(calls) : calls[k].file_a_index # a)
           => RowRef(a) \in Range(result[1].unmatched_file_a_entries)

C8_Step ==
  /\ (pc = "loop" /\ i < Len(normA) /\ ~CandidatesThrows(normA[i + 1], normB, usedB)) =>
       IF Len(Candidates(normA[i + 1], normB, usedB)) = 0
         THEN calls' = calls /\ i' = i + 1 /\ pc' = "loop" /\ usedA' = usedA
         ELSE /\ Len(calls') = Len(calls) + 1
              /\ SubSeq(calls', 1, Len(calls)) = calls
              /\ calls'[Len(calls')].file_a_index = i
              /\ calls'[Len(calls')].sent = Candidates(normA[i + 1], normB, usedB)
              /\ pc' = "await"
  /\ Len(calls') # Len(calls) => (pc = "loop" /\ i < Len(normA))
  /\ pc = "await" =>
       /\ i' = i + 1 \/ pc' = "threw"
       /\ calls'[Len(calls')].outcome \in {"returned", "threw"}

\* C8: a left row with an empty candidate set causes no oracle call and ends
\* up unmatched; a left row with candidates causes exactly one call, which is
\* never sent again, whether it parses, fails to parse or fails in transport.
C8_OneCallPerNonEmptyCandidateSet == [](C8_Inv) /\ [][C8_Step]_vars

\* C8 witness: of two left rows the first had no candidate and caused no
\* call, the second caused the only call; the first is reported unmatched.
C8_Witness ==
  /\ pc = "responded"
  /\ result # <<>>
  /\ Len(normA) = 2
  /\ Len(calls) = 1
  /\ calls[1].file_a_index = 1
  /\ RowRef(0) \in Range(result[1].unmatched_file_a_entries)

C9_Step ==
  ReturnStep =>
    LET V == Returned
    IN IF Flagged(V) # {} /\ MaxConfidence(V) >= LLM_MATCH_THRESHOLD
         THEN /\ Len(matches') = Len(matches) + 1
              /\ \E k \in Flagged(V) :
                   /\ V[k].confidence = MaxConfidence(V)
                   /\ usedB' = usedB \cup {V[k].file_b_index}
         ELSE matches' = matches /\ usedB' = usedB

\* C9: for a left row with verdicts an assignment is committed if and only if
\* the maximum confidence among the verdicts flagged match is >= the
\* threshold, and the committed right index is that of a verdict attaining it.
C9_CommitsIffMaxReachesThreshold == [][C9_Step]_vars

C9_AmendedStep ==
  ReturnStep =>
    LET V == Returned
    IN IF /\ Flagged(V) # {}
          /\ MaxConfidence(V) > 0
          /\ MaxConfidence(V) >= LLM_MATCH_THRESHOLD
          /\ V[FirstMax(V)].file_b_index # Num(-1)
         THEN /\ Len(matches') = Len(matches) + 1
              /\ SubSeq(matches', 1, Len(matches)) = matches
              /\ \E k \in Flagged(V) :
                   /\ V[k].confidence = MaxConfidence(V)
                   /\ usedB' = usedB \cup {V[k].file_b_index}
                   /\ matches'[Len(matches')].file_b_entry = ArrayIndex(normB, V[k].file_b_index)
                   /\ matches'[Len(matches')].confidence_score = ToFixed2(V[k].confidence)
              /\ usedA' = usedA \cup {Num(i)}
         ELSE matches' = matches /\ usedB' = usedB /\ usedA' = usedA

\* C9 as amended: an assignment is committed if and only if some verdict
\* flagged match has a confidence above 0, the maximum confidence among the
\* flagged verdicts is >= the threshold, and the first verdict attaining that
\* maximum does not carry the index -1; the committed right index is that of
\* a flagged verdict attaining the maximum.
C9_CommitsIffMaxReachesThresholdUnlessSentinel == [][C9_AmendedStep]_vars

\* C9 witness: the oracle returned 0.70 for right row 0 and exactly 0.85 for
\* right row 1, both flagged, and right row 1 was committed at 0.85.
C9_Witness ==
  /\ Len(calls) = 1
  /\ calls[1].outcome = "returned"
  /\ Len(calls[1].verdicts) = 2
  /\ calls[1].verdicts[1].match /\ calls[1].verdicts[2].match
  /\ calls[1].verdicts[1].confidence = 700
  /\ calls[1].verdicts[2].confidence = LLM_MATCH_THRESHOLD
  /\ calls[1].verdicts[1].file_b_index = Num(0)
  /\ calls[1].verdicts[2].file_b_index = Num(1)
  /\ Len(matches) = 1
  /\ matches[1].file_b_entry = RowRef(1)
  /\ matches[1].confidence_score = LLM_MATCH_THRESHOLD
  /\ usedB = {Num(1)}

C10_Step ==
  (ReturnStep /\ Len(matches') = Len(matches) + 1) =>
    LET V == Returned
        first == V[FirstMax(V)]
    IN /\ Flagged(V) # {}
       /\ usedA' = usedA \cup {Num(i)}
       /\ usedB' = usedB \cup {first.file_b_index}
       /\ matches'[Len(matches')].file_a_entry = RowRef(i)
       /\ matches'[Len(matches')].file_b_entry = ArrayIndex(normB, first.file_b_index)
       /\ matches'[Len(matches')].match_reason = first.reason
       /\ matches'[Len(matches')].confidence_score = ToFixed2(first.confidence)

\* C10: when several verdicts flagged match share the maximum confidence, the
\* assignment committed is the first of them in the order the oracle
\* returned the verdicts.
C10_TieBreakFirstReturned == [][C10_Step]_vars

\* C10 witness: the oracle returned right index 1 before right index 0, both
\* flagged and both at 0.91, and right row 1 was committed.
C10_Witness ==
  /\ Len(calls) = 1
  /\ calls[1].outcome = "returned"
  /\ Len(calls[1].verdicts) = 2
  /\ calls[1].verdicts[1].match /\ calls[1].verdicts[2].match
  /\ calls[1].verdicts[1].confidence = calls[1].verdicts[2].confidence
  /\ calls[1].verdicts[1].file_b_index = Num(1)
  /\ calls[1].verdicts[2].file_b_index = Num(0)
  /\ Len(matches) = 1
  /\ matches[1].file_b_entry = RowRef(1)
  /\ usedB = {Num(1)}

\* ------------------------------------------------------------ candidate set

\* the calendar day an MM/DD/YYYY string names, as a day count
CalendarDay(date) ==
  LET parts == SplitOn(date.s, {"/"})
  IN DaysFromCivil(DigitsToInt(parts[3]), DigitsToInt(parts[1]), DigitsToInt(parts[2]))

IsCalendarDate(date) ==
  /\ date.t = "string"
  /\ LET parts == SplitOn(date.s, {"/"})
     IN /\ Len(parts) = 3
        /\ \A k \in 1..3 : Len(parts[k]) > 0 /\ AllDigits(parts[k])
        /\ DigitsToInt(parts[1]) \in 1..12
        /\ DigitsToInt(parts[2]) \in 1..31

WithinDays(dateA, dateB, days) ==
  /\ IsCalendarDate(dateA)
  /\ IsCalendarDate(dateB)
  /\ CalendarDay(dateA) - CalendarDay(dateB) \in (0 - days)..days

\* the derived amount of a row as a number, in hundredths
AmountOf(row) == ParseFloat(StripAmount(getRowAmount(row)))

WithinAmount(rowA, rowB, tol) ==
  /\ ~AmountOf(rowA).nan
  /\ ~AmountOf(rowB).nan
  /\ AmountOf(rowA).v - AmountOf(rowB).v \in (0 - tol)..tol

\* reconcile is about to compute the candidate set of left row i
AtCandidates ==
  /\ pc = "loop"
  /\ i < Len(normA)
  /\ Num(i) \notin usedA

\* C12: the candidate set computed for a left row holds a right row if and
\* only if its index is not in usedB, its Date is non-blank, its calendar date
\* is at most 7 days from the left row's, and its derived amount is at most
\* 500 from the left row's, both bounds included.
C12_CandidateSetIsToleranceWindow ==
  (AtCandidates /\ ~CandidatesThrows(normA[i + 1], normB, usedB)) =>
    \A idx \in 0..(Len(normB) - 1) :
      idx \in Range(Candidates(normA[i + 1], normB, usedB))
        <=> /\ Num(idx) \notin usedB
            /\ Truthy(normB[idx + 1]["Date"])
            /\ WithinDays(normA[i + 1]["Date"], normB[idx + 1]["Date"], DATE_TOLERANCE_DAYS)
            /\ WithinAmount(normA[i + 1], normB[idx + 1], AMOUNT_TOLERANCE_BATCH * 100)

C13_Inv ==
  \A k \in 1..Len(calls) :
    \A idx \in Range(calls[k].sent) :
      /\ ~AmountOf(normA[calls[k].file_a_index + 1]).nan
      /\ ~AmountOf(normB[idx + 1]).nan

C13_Step ==
  (pc = "loop" /\ i < Len(normA)) =>
    /\ pc' = "threw" => normA[i + 1]["Date"].t # "string"
    /\ (AmountOf(normA[i + 1]).nan /\ normA[i + 1]["Date"].t = "string") =>
         /\ pc' = "loop"
         /\ i' = i + 1
         /\ calls' = calls
         /\ error' = error

\* C13: a pair one of whose derived amounts is missing or not a number is
\* never among the candidates sent to the oracle, and the amount raises no
\* error: candidate generation raises only for a left row whose Date is not a
\* string, and a dated left row without a usable amount is passed over
\* without a call.
C13_UnparsableAmountFailsClosed == [](C13_Inv) /\ [][C13_Step]_vars

\* C13 witness: the only call carried right row 1 alone, because right row 0,
\* dated within the window, has an amount cell that is not a number.
C13_Witness ==
  /\ pc = "await"
  /\ Len(calls) = 1
  /\ calls[1].sent = <<1>>
  /\ AmountOf(normB[1]).nan
  /\ WithinDays(normA[1]["Date"], normB[1]["Date"], DATE_TOLERANCE_DAYS)

\* ------------------------------------------------------------ row guard

\* C14: a request whose ledgers together hold more rows than the cap is
\* answered with an error before any work: reconcile is not entered and no
\* oracle call is made, on the router's handler and on the app's handler.
C14_OversizedIsRejectedBeforeWork ==
  Len(dataA) + Len(dataB) > MAX_ROWS_PER_FILE =>
    /\ pc \in {"request", "responded"}
    /\ normA = <<>>
    /\ calls = <<>>
    /\ \A r \in Range(responses) : r.status = 400

\* ------------------------------------------------------------ order

\* C15: left rows are processed in ascending order, at most one call is
\* outstanding, and the candidates sent for a left row hold no right row
\* that a match of an earlier left row holds.
C15_SequentialAndExcludesCommitted ==
  /\ \A k, q \in 1..Len(calls) : k < q => calls[k].file_a_index < calls[q].file_a_index
  /\ \A k \in 1..Len(calls) :
       calls[k].outcome = "pending" => (k = Len(calls) /\ pc = "await")
  /\ \A k \in 1..Len(calls) :
       \A m \in 1..Len(matches) :
         matches[m].file_a_entry.n < calls[k].file_a_index =>
           \A idx \in Range(calls[k].sent) : matches[m].file_b_entry # RowRef(idx)

C16_Step ==
  /\ Len(matches') >= Len(matches)
  /\ SubSeq(matches', 1, Len(matches)) = matches
  /\ usedA \subseteq usedA'
  /\ usedB \subseteq usedB'
  /\ i' >= i
  /\ Len(calls') > Len(calls) =>
       /\ Num(i) \notin usedA
       /\ \A m \in 1..Len(matches) : matches[m].file_a_entry # RowRef(i)
       /\ \A k \in 1..Len(calls) : calls[k].file_a_index # i

\* C16: reconcile is single-pass and greedy: a committed match is never
\* removed or changed, usedA and usedB only grow, the loop index never goes
\* back and no call is made for a left row that is committed or was
\* processed before.
C16_SinglePassGreedy == [][C16_Step]_vars

\* C16 witness: left row 0 was committed with right row 1 at 0.85; the later
\* left row 1 got a verdict above 0.85 for the same right row, and the first
\* match is still the first match.
C16_Witness ==
  /\ pc = "returned"
  /\ Len(matches) >= 1
  /\ matches[1].file_a_entry = RowRef(0)
  /\ matches[1].file_b_entry = RowRef(1)
  /\ matches[1].confidence_score = LLM_MATCH_THRESHOLD
  /\ \E e \in Range(llmCandidates) :
       /\ e.file_a_index = 1
       /\ e.file_b_index = Num(1)
       /\ e.confidence_score > LLM_MATCH_THRESHOLD

\* ------------------------------------------------------------ response parsing

\* C18: when the whole response text is a JSON array of verdict objects, the
\* call returns one verdict per element of it, in order.
C18_FullArrayIsReturned ==
  \A k \in 1..Len(calls) :
    (/\ calls[k].outcome = "returned"
     /\ calls[k].content.shape = "array"
     /\ \A j \in 1..Len(calls[k].content.elems) : ~calls[k].content.elems[j].isNull) =>
      /\ Len(calls[k].verdicts) = Len(calls[k].content.elems)
      /\ \A j \in 1..Len(calls[k].verdicts) :
           calls[k].verdicts[j].file_b_index = calls[k].content.elems[j].file_b_index

\* C19: every confidence of a verdict, of an audit entry and of a match is
\* within [0, 1].
C19_ConfidenceWithinUnitInterval ==
  /\ \A k \in 1..Len(calls) :
       \A j \in 1..Len(calls[k].verdicts) : calls[k].verdicts[j].confidence \in 0..1000
  /\ \A e \in Range(llmCandidates) : e.confidence_score \in 0..1000
  /\ \A m \in Range(matches) : m.confidence_score \in 0..1000

\* C20: every match and every audit entry carries a numeric confidence score
\* and a non-empty reason, and an audit entry of a verdict that came without
\* a reason carries the placeholder reason.
C20_ScoreAndReasonAlwaysPresent ==
  /\ \A e \in Range(llmCandidates) :
       e.confidence_score \in Int /\ Truthy(e.match_reason)
  /\ \A m \in Range(matches) :
       m.confidence_score \in Int /\ Truthy(m.match_reason)
  /\ \A k \in 1..Len(calls) :
       calls[k].verdicts # <<>> =>
         /\ Len(AuditOf(calls[k].file_a_index)) = Len(calls[k].content.elems)
         /\ \A j \in 1..Len(calls[k].content.elems) :
              ~Truthy(calls[k].content.elems[j].reason) =>
                AuditOf(calls[k].file_a_index)[j].match_reason = NoReasonProvided

\* C20 witness: the oracle's only verdict came without a reason at 0.85; it
\* was audited and committed with the placeholder reason.
C20_Witness ==
  /\ Len(calls) = 1
  /\ calls[1].outcome = "returned"
  /\ Len(calls[1].content.elems) = 1
  /\ calls[1].content.elems[1].reason = Undef
  /\ Len(llmCandidates) = 1
  /\ llmCandidates[1].match_reason = NoReasonProvided
  /\ Len(matches) = 1
  /\ matches[1].match_reason = NoReasonProvided
  /\ matches[1].confidence_score = LLM_MATCH_THRESHOLD

\* ------------------------------------------------------------ per-pair commit

\* C11: in the per-pair variant every committed match is of a pair whose
\* response flagged match true; a pair flagged false is never committed,
\* whatever its confidence.
C11_OnlyFlaggedPairIsCommitted ==
  \A m \in 1..Len(matches) :
    \A k \in 1..Len(calls) :
      (/\ calls[k].outcome = "returned"
       /\ calls[k].file_a_index = matches[m].file_a_entry.n
       /\ RowRef(calls[k].sent[1]) = matches[m].file_b_entry) =>
        /\ calls[k].content.elems # <<>>
        /\ Truthy(calls[k].content.elems[1].match)

\* ------------------------------------------------------------ isolation

\* the collections of a reconcile that runs alone on rowsA and rowsB from
\* left row k on and gets the responses contents, in order
RECURSIVE RunFrom(_, _, _, _, _)
RunFrom(rowsA, rowsB, k, st, contents) ==
  IF k >= Len(rowsA) THEN st
  ELSE IF Num(k) \in st.usedA THEN RunFrom(rowsA, rowsB, k + 1, st, contents)
  ELSE IF CandidatesThrows(rowsA[k + 1], rowsB, st.usedB) THEN st
  ELSE IF Len(Candidates(rowsA[k + 1], rowsB, st.usedB)) = 0
    THEN RunFrom(rowsA, rowsB, k + 1, st, contents)
  ELSE IF contents = <<>> THEN st
  ELSE RunFrom(rowsA, rowsB, k + 1,
               Resolved(st, k, rowsB, Head(contents)), Tail(contents))

RunAlone(f) == RunFrom(f.normA, f.normB, 0, NewCollections, f.received)

\* C17: whatever the interleaving of two invocations, the matches, used-sets
\* and audit trail of each are those of a run alone with the responses it
\* received, and so are the unmatched lists of the result it returns.
C17_InvocationsShareNoState ==
  \A p \in DOMAIN frames :
    frames[p].pc # "request" =>
      /\ scopes[ScopeOf(p)] = RunAlone(frames[p])
      /\ frames[p].pc = "returned" =>
           frames[p].result =
             <<Aggregated(RunAlone(frames[p]), frames[p].normA, frames[p].normB)>>

\* C17 witness: on the same ledgers, invocation 2 ran to its end and matched
\* both rows while invocation 1 is suspended at the await of its second row,
\* holding right row 1 as used.
C17_Witness ==
  /\ DOMAIN frames = Invocations
  /\ frames[1].dataA = frames[2].dataA
  /\ frames[1].pc = "await"
  /\ frames[1].i = 1
  /\ scopes[ScopeOf(1)].usedB = {Num(1)}
  /\ frames[2].pc = "returned"
  /\ Len(frames[2].result[1].matches) = 2
  /\ scopes[ScopeOf(2)].usedB = {Num(0), Num(1)}

\* ------------------------------------------------------------ row functions

\* the parts of a date string between its separators, blanks around it dropped
DateParts(v) == SplitOn(Trim(v.s), {"/", "-"})

\* a string of one or two digits, one or two digits and yearLen digits,
\* separated by / or -
HasDateShape(v, yearLen) ==
  /\ v.t = "string"
  /\ Len(DateParts(v)) = 3
  /\ \A k \in 1..3 : AllDigits(DateParts(v)[k])
  /\ Len(DateParts(v)[1]) \in 1..2
  /\ Len(DateParts(v)[2]) \in 1..2
  /\ Len(DateParts(v)[3]) = yearLen

IsSerial(v) == v.t = "number" /\ v.n > Excel_Serial_Low /\ v.n < Excel_Serial_High

\* a string of the form MM/DD/YYYY
IsPadded(v) ==
  /\ v.t = "string"
  /\ Len(v.s) = 10
  /\ v.s[3] = "/"
  /\ v.s[6] = "/"
  /\ \A k \in {1, 2, 4, 5, 7, 8, 9, 10} : v.s[k] \in Digits

\* C21: normalizing a row that normalizeDatesInObject returned gives an equal
\* row, whatever the date cell holds: a serial number, a date with a
\* four-digit or a two-digit year, a string that is no date, null, or a nested
\* object.
C21_NormalizationIsIdempotent ==
  fn.pc = "twice" => fn.twice = fn.once

\* C21 witness: a row whose Date cell holds a serial number, or whose nested
\* object holds a two-digit-year date, was normalized twice, and the first
\* pass changed it.
C21_Witness ==
  /\ fn.pc = "twice"
  /\ fn.once # fn.row
  /\ \/ IsSerial(fn.row["Date"])
     \/ /\ fn.row["Meta"].t = "object"
        /\ ~fn.row["Meta"].isArray
        /\ HasDateShape(fn.row["Meta"].o["Date"], 2)

\* C22: a date with a two-digit year yy is normalized to the year 2000 + yy
\* for 00..49 and 1900 + yy for 50..99, with month and day padded to two
\* digits.
C22_TwoDigitYearPivot ==
  fn.pc \in {"once", "twice"} =>
    \A key \in DateKeys :
      HasDateShape(fn.row[key], 2) =>
        LET parts == DateParts(fn.row[key])
            yy == DigitsToInt(parts[3])
            out == fn.once[key]
        IN /\ IsPadded(out)
           /\ DigitsToInt(SubSeq(out.s, 1, 2)) = DigitsToInt(parts[1])
           /\ DigitsToInt(SubSeq(out.s, 4, 5)) = DigitsToInt(parts[2])
           /\ DigitsToInt(SubSeq(out.s, 7, 10)) =
                (IF yy \in 0..49 THEN 2000 + yy ELSE 1900 + yy)

\* C22 witness: 6/15/71 was normalized to 06/15/1971.
C22_Witness ==
  /\ fn.pc = "once"
  /\ fn.row["Date"] = Str(<<"6", "/", "1", "5", "/", "7", "1">>)
  /\ fn.once["Date"] = Str(<<"0", "6", "/", "1", "5", "/", "1", "9", "7", "1">>)

\* a date cell of a shape the normalizer converts
Recognised(v) == IsSerial(v) \/ HasDateShape(v, 4) \/ HasDateShape(v, 2)

\* out is obj with the date fields of a recognised shape padded, at every
\* depth, and with every other field as it was
RECURSIVE FieldsAsSpecified(_, _)
FieldsAsSpecified(obj, out) ==
  /\ DOMAIN out = DOMAIN obj
  /\ \A key \in DOMAIN obj :
       LET v == obj[key]
       IN IF v.t = "object"
            THEN /\ out[key].t = "object"
                 /\ out[key].isArray = v.isArray
                 /\ IF v.isArray
                      THEN /\ Len(out[key].o) = Len(v.o)
                           /\ \A k \in 1..Len(v.o) : FieldsAsSpecified(v.o[k], out[key].o[k])
                      ELSE FieldsAsSpecified(v.o, out[key].o)
          ELSE IF IsDateKey(key) /\ Recognised(v) THEN IsPadded(out[key])
          ELSE IF IsDateKey(key) /\ v.t = "null" THEN out[key] = Blank
          ELSE out[key] = v

\* C23: normalizeDatesInObject returns for every row: every field whose
\* trimmed, lower-cased name is "date" is normalized, also inside nested
\* structures; a date value of no recognised shape is passed through
\* unchanged; every other field is unchanged.
C23_OnlyDateFieldsChange ==
  fn.pc \in {"once", "twice"} => FieldsAsSpecified(fn.row, fn.once)

\* the first of the three cells, in the order Amount, Credit Amount, Debit
\* Amount, that is neither absent, null nor a string of blanks
FirstNonBlankAmount(row) ==
  LET holds(key) == /\ row[key].t \notin {"undefined", "null"}
                    /\ Len(Trim(ToStringChars(row[key]))) > 0
  IN IF holds("Amount") THEN row["Amount"]
     ELSE IF holds("Credit Amount") THEN row["Credit Amount"]
     ELSE IF holds("Debit Amount") THEN row["Debit Amount"]
     ELSE Null

\* C24: getRowAmount returns the first non-blank of Amount, Credit Amount and
\* Debit Amount, in that order, and null when all are blank or absent; a
\* column is never preferred to one before it that holds a non-blank value,
\* the number zero included.
C24_FirstNonBlankAmountColumn ==
  fn.pc \in {"amount", "once", "twice"} =>
    fn.amount = FirstNonBlankAmount(fn.row)

\* ------------------------------------------------------------ offered indices

\* the right indices sent with the call made for left row a, as JS numbers
OfferedFor(a) ==
  UNION {{Num(idx) : idx \in Range(calls[k].sent)} :
           k \in {q \in 1..Len(calls) : calls[q].file_a_index = a}}

\* C25: every committed right index and the right index of every audit entry
\* is a number that was in the candidate set sent for that left row; an index
\* that was not (used, out of range, not a number) is neither committed nor
\* added to usedB.
C25_OnlyOfferedIndicesAreRecorded ==
  /\ \A e \in Range(llmCandidates) : e.file_b_index \in OfferedFor(e.file_a_index)
  /\ \A m \in Range(matches) :
       \E idx \in OfferedFor(m.file_a_entry.n) : m.file_b_entry = RowRef(idx.n)
  /\ usedB \subseteq UNION {OfferedFor(a) : a \in 0..(Len(normA) - 1)}

\* C26: the returned result partitions both ledgers: the matches and the
\* unmatched left rows are as many as the left ledger's rows, the matches and
\* the unmatched right rows as many as the right ledger's rows.
C26_ResultPartitionsBothLedgers ==
  result # <<>> =>
    /\ Len(result[1].matches) + Len(result[1].unmatched_file_a_entries) = Len(dataA)
    /\ Len(result[1].matches) + Len(result[1].unmatched_file_b_entries) = Len(dataB)

\* C27: when every oracle call returns a response, reconcile returns a result
\* for any ledgers: a left row without a Date column, or with a date column
\* named in another case or with surrounding blanks, is left unmatched and
\* reconcile does not throw.
C27_ReconcileReturnsForAnyLedgers ==
  (req.parsed /\ \A k \in 1..Len(calls) : calls[k].outcome # "threw") =>
    /\ pc # "threw"
    /\ \A r \in Range(responses) : r.status # 500

\* C28: reconcile leaves the ledgers it is given, and their rows, as they
\* were; the normalized dates are in its copies only.
C28_InputsAreNotModified ==
  [][dataA' = dataA /\ dataB' = dataB]_vars

\* C28 witness: reconcile returned a match of a left row whose Date it
\* normalized to another string, and the ledger still holds the row as parsed.
C28_Witness ==
  /\ pc = "returned"
  /\ Len(matches) > 0
  /\ dataA[1] = A_short
  /\ normA[1]["Date"] # dataA[1]["Date"]
  /\ matches[1].file_a_entry = RowRef(0)

\* ------------------------------------------------------------ responses

\* C29: a multipart request without fileA or without fileB is answered 400
\* with the both-files-required message; none of its files is parsed,
\* reconcile is not entered and no oracle call is made.
C29_MissingFileIsRejected ==
  req.files \in {"onlyA", "onlyB", "nofiles"} =>
    /\ pc \in {"request", "responded"}
    /\ ~req.parsed
    /\ normA = <<>> /\ normB = <<>>
    /\ calls = <<>>
    /\ result = <<>>
    /\ pc = "responded" =>
         responses = <<[status |-> 400, error |-> BothFilesRequired(entry), body |-> <<>>]>>

\* C29 witness: the app's handler answered a request that carried fileA only.
C29_Witness ==
  /\ req.files = "onlyA"
  /\ entry = "app"
  /\ pc = "responded"
  /\ Len(responses) = 1
  /\ responses[1].status = 400

\* at most one response, and its status is that of the request's case
C30_Answered ==
  /\ Len(responses) <= 1
  /\ \A r \in Range(responses) :
       /\ r.status \in {200, 400, 500}
       /\ r.status = 400 =>
            \/ req.files \in {"onlyA", "onlyB", "nofiles"}
            \/ Len(dataA) > MAX_ROWS_PER_FILE \/ Len(dataB) > MAX_ROWS_PER_FILE
       /\ r.status = 500 => (error # "" /\ r.error = error)
       /\ r.status = 200 => (result # <<>> /\ r.body = result)

\* no step of the handler remains: it sent its response, or its promise was
\* rejected and nothing handles the rejection
HandlerEnded == pc \in {"responded", "unhandled"}

\* C30: every request is answered exactly once, provided every oracle call
\* returns or fails: at most one response is ever sent, and when no step of
\* the handler remains one has been sent; 400 for a missing file or too many
\* rows, 500 with the message of an error thrown while parsing or
\* reconciling, also for a request without multipart files, 200 with the
\* result otherwise.  Every run of the handler is finite, so a request is
\* left unanswered exactly when its handler ends without a response.
C30_EveryRequestIsAnsweredOnce ==
  /\ C30_Answered
  /\ HandlerEnded => Len(responses) = 1

\* ------------------------------------------------------------ embedding-based variant

\* how many entries of seq are x
Occurrences(seq, x) == Cardinality({k \in 1..Len(seq) : seq[k] = x})

\* C31: in the response of the embedding-based router every File A row is in
\* exactly one of matched_transactions and unmatched_transactions_fileA, so
\* the two lengths add up to the number of File A rows, also when rows of
\* File A are identical; and no File B index is AI-matched to two File A rows.
C31_LeftRowsAreConserved ==
  emb.pc = "responded" =>
    LET r == emb.response[1]
    IN /\ \A k \in 1..Len(emb.dataA) :
            Occurrences(r.matched_transactions, k)
              + Occurrences(r.unmatched_transactions_fileA, k) = 1
       /\ Len(r.matched_transactions) + Len(r.unmatched_transactions_fileA) = Len(emb.dataA)
       /\ \A p1, p2 \in emb.aiPairs : p1[2] = p2[2] => p1 = p2

\* a file that FileUpload may hand on: an allowed type and at most 5MB
PassesValidation(file) ==
  /\ file # NoFile
  /\ file.type \in AllowedTypes
  /\ file.size <= MAX_FILE_SIZE

C32_State ==
  /\ \A k \in 1..Len(ui.submitted) :
       /\ PassesValidation(ui.submitted[k].fileA)
       /\ PassesValidation(ui.submitted[k].fileB)
       /\ ~ui.submitted[k].loading
  /\ \A slot \in {"fileA", "fileB"} : \A file \in Files :
       ~PassesValidation(file) =>
         /\ handleFileChange(ui, slot, file)[slot] = NoFile
         /\ handleFileChange(ui, slot, file).uploadError # ""
  /\ (ui.fileA = NoFile \/ ui.fileB = NoFile) =>
       /\ handleSubmit(ui).uploadError = "Please select both files."
       /\ handleSubmit(ui).submitted = ui.submitted

C32_Step ==
  ui.loading =>
    /\ ui'.submitted = ui.submitted
    /\ ui'.fileA = ui.fileA
    /\ ui'.fileB = ui.fileB
    /\ ui'.uploadError = ui.uploadError

\* C32: FileUpload calls onSubmit only with two files that are both selected
\* and both of an allowed type and of at most 5MB, and never while loading;
\* handleFileChange with a file that fails validation empties the slot and
\* sets an error; handleSubmit with an empty slot sets the error and does not
\* call onSubmit; while loading is true no step submits, resets or changes a
\* slot.
C32_OnlyValidatedPairsAreSubmitted == []C32_State /\ [][C32_Step]_vars

\* a second pair was submitted after a file that is too large had emptied the
\* second slot and another file was chosen for it
C32_Witness ==
  /\ Len(ui.submitted) = 2
  /\ ui.loading
  /\ ui.submitted[1].fileB # ui.submitted[2].fileB
  /\ ui.submitted[2].fileB.size = MAX_FILE_SIZE

Succeeded ==
  /\ ui.result # <<>>
  /\ ui.rawJson # <<>>
  /\ ui.success = "Reconciliation complete!"
  /\ ui.error = ""

Failed ==
  /\ ui.error # ""
  /\ ui.result = <<>>
  /\ ui.success = ""

C33_State ==
  /\ ~(ui.error # "" /\ ui.success # "")
  /\ (Len(ui.submitted) > 0 /\ ~ui.loading) => (Succeeded /\ ~Failed) \/ (Failed /\ ~Succeeded)

C33_Step ==
  Len(ui'.submitted) > Len(ui.submitted) =>
    /\ ui'.loading
    /\ ui'.result = <<>>
    /\ ui'.rawJson = <<>>
    /\ ui'.error = ""
    /\ ui'.success = ""

====
